---------------------------- MODULE Spec2Model ----------------------------
(***************************************************************************)
(* Model of the dictionary pipeline's core stages:                         *)
(*   normalize_dictionary.py  (normalizer and collision resolver),         *)
(*   compute_lex_rank.py      (rank assigner),                             *)
(*   sanity_check_ranked.py   (invariant verifier).                        *)
(* A text is a sequence of characters; a character is a one-token string   *)
(* with a code point (Ord).  CSV fields are texts, numeric CSV fields are  *)
(* decimal field strings converted by int() / str().                       *)
(***************************************************************************)
EXTENDS Integers, Sequences, FiniteSets, TLC

VARIABLES
    pc,                  \* position of the running stage
    raw_rows,            \* normalizer: rows read from the raw CSV
    do_dedupe,           \* normalizer: to_bool(args.dedupe)
    row_i,               \* index of the next row / entry of the running loop
    normalized_entries,  \* normalizer: list of NormalizedEntry
    dropped_empty,       \* normalizer: counter
    dropped_nonalpha,    \* normalizer: counter
    kept_by_normalized,  \* normalizer: dict key -> entry, in insertion order
    collisions,          \* normalizer: list of collision records
    final_entries,       \* normalizer: entries handed to the writer
    norm_output,         \* normalizer: rows of the normalized CSV written
    collisions_file,     \* normalizer: content of the collision report file
    norm_exit,           \* normalizer: exit status (the string "none" while running)
    rank_rows,           \* rank assigner: rows read from the normalized CSV
    rows_sorted,         \* rank assigner: sorted(rows, key=sort_key)
    ranked_rows,         \* rank assigner: rows with their lex_rank
    rank_output,         \* rank assigner: the ranked CSV written
    rank_exit,           \* rank assigner: exit status
    check_rows,          \* verifier: rows read from the ranked CSV
    seen_ranks,          \* verifier: set of lex_rank values met
    last_word,           \* verifier: last non-empty normalized word met
    errors,              \* verifier: list of violations
    check_exit,          \* verifier: exit status
    check_report,        \* verifier: the violations printed and the count of the rest
    word_raw,            \* normalize_word: the raw word it is applied to
    word_key,            \* normalize_word(word_raw)
    word_rekey,          \* normalize_word(word_key)
    word_clean_key,      \* normalize_word(clean_whitespace(word_raw))
    first_output,        \* rank assigner: the output of the run it is re-run on
    globbed,             \* extractor: glob.glob(pattern), in the order the OS gives
    html,                \* extractor: the <p> tags of each file of globbed
    file_paths,          \* extractor: the files to parse, in parsing order
    file_i,              \* extractor: index of the file being parsed
    entry_idx,           \* extractor: entry_index, the counter of the entries of a file
    all_entries,         \* extractor: list of RawDictionaryEntry
    raw_output,          \* extractor: the raw CSV written
    extract_exit,        \* extractor: exit status
    enrich_rows,         \* offline enrichment: rows read from the input CSV
    max_calls,           \* offline enrichment: --max-calls (0 = unlimited)
    force_refresh,       \* offline enrichment: --force-refresh
    cache,               \* offline enrichment: the cache file of each word
    api_calls,           \* offline enrichment: counter
    cache_hits,          \* offline enrichment: counter
    cache_misses,        \* offline enrichment: counter
    enriched_count,      \* offline enrichment: counter
    enriched_rows,       \* offline enrichment: rows handed to the writer
    enrich_output,       \* offline enrichment: the CSV written
    enrich_exit,         \* offline enrichment: exit status
    db_table,            \* database enrichment: the rows of public.dictionary
    db_rows,             \* database enrichment: rows fetched by the run
    dry_run,             \* database enrichment: --dry-run
    refresh,             \* database enrichment: --refresh
    db_cache,            \* database enrichment: the cache file of each word
    db_run,              \* database enrichment: 1 in the first run, 2 in the second
    db_log,              \* database enrichment: the updates computed, run by run
    db_summary,          \* database enrichment: processed/ok/not_found/error counts
    db_exit              \* database enrichment: exit status of the last run

norm_vars == <<raw_rows, do_dedupe, normalized_entries, dropped_empty,
               dropped_nonalpha, kept_by_normalized, collisions, final_entries,
               norm_output, collisions_file, norm_exit>>

rank_vars == <<rank_rows, rows_sorted, ranked_rows, rank_output, rank_exit>>

check_vars == <<check_rows, seen_ranks, last_word, errors, check_exit, check_report>>

word_vars == <<word_raw, word_key, word_rekey, word_clean_key>>

extract_vars == <<globbed, html, file_paths, file_i, entry_idx, all_entries,
                  raw_output, extract_exit>>

enrich_vars == <<enrich_rows, max_calls, force_refresh, cache, api_calls,
                 cache_hits, cache_misses, enriched_count, enriched_rows,
                 enrich_output, enrich_exit>>

db_vars == <<db_table, db_rows, dry_run, refresh, db_cache, db_run, db_log,
             db_summary, db_exit>>

\* The variables of the stages around the core.
side_vars == <<extract_vars, enrich_vars, db_vars>>

vars == <<pc, row_i, norm_vars, rank_vars, check_vars, word_vars, first_output,
          side_vars>>

---------------------------------------------------------------------------
(* Bounds of the model.                                                    *)

\* At most this many rows in the raw CSV given to the normalizer.
MaxRows == 3

\* At most this many rows in the normalized CSV given to the rank assigner.
MaxRankRows == 3

\* At most this many rows in the ranked CSV given to the verifier.
MaxCheckRows == 3

\* Length of the words normalize_word is applied to exhaustively.
MaxWordLen == 3

\* Rows of the ranked CSVs whose report is looked at.
MaxReportRows == 13

---------------------------------------------------------------------------
(* Characters and texts.                                                   *)

\* The code point of a character (Python's ord).
Ord(ch) ==
    CASE ch = "\t" -> 9
      [] ch = " " -> 32
      [] ch = "!" -> 33
      [] ch = "'" -> 39
      [] ch = "-" -> 45
      [] ch = "1" -> 49
      [] ch = "2" -> 50
      [] ch = "3" -> 51
      [] ch = "A" -> 65
      [] ch = "B" -> 66
      [] ch = "C" -> 67
      [] ch = "E" -> 69
      [] ch = "a" -> 97
      [] ch = "b" -> 98
      [] ch = "c" -> 99
      [] ch = "e" -> 101
      [] ch = "f" -> 102
      [] ch = "x" -> 120
      [] ch = "y" -> 121
      [] ch = "z" -> 122
      [] ch = "E_ACUTE" -> 201
      [] ch = "e_acute" -> 233
      [] ch = "comb_acute" -> 769
      [] ch = "cyr_ya" -> 1103

\* Characters matched by the regular expression class \s.
IsSpace(ch) == ch \in {" ", "\t"}

\* "a" <= ch <= "z" on one-character strings.
IsLower_az(ch) == Ord("a") <= Ord(ch) /\ Ord(ch) <= Ord("z")

RECURSIVE LStrip(_)
LStrip(text) ==
    IF text = <<>> THEN <<>>
    ELSE IF IsSpace(Head(text)) THEN LStrip(Tail(text))
    ELSE text

RECURSIVE RStrip(_)
RStrip(text) ==
    IF text = <<>> THEN <<>>
    ELSE IF IsSpace(text[Len(text)]) THEN RStrip(SubSeq(text, 1, Len(text) - 1))
    ELSE text

\* str.strip()
strip(text) == RStrip(LStrip(text))

\* WHITESPACE_RE.sub(" ", text): every maximal run of whitespace becomes " ".
RECURSIVE CollapseSpace(_)
CollapseSpace(text) ==
    IF text = <<>> THEN <<>>
    ELSE IF IsSpace(Head(text))
         THEN <<" ">> \o CollapseSpace(LStrip(Tail(text)))
         ELSE <<Head(text)>> \o CollapseSpace(Tail(text))

clean_whitespace(text) == strip(CollapseSpace(text))

\* str.lower(), one character.
LowerChar(ch) ==
    CASE ch = "A" -> "a"
      [] ch = "B" -> "b"
      [] ch = "C" -> "c"
      [] ch = "E" -> "e"
      [] ch = "E_ACUTE" -> "e_acute"
      [] OTHER -> ch

\* A key that is built without lowercasing.
lower_Skipped(text) == text

\* str.swapcase() in the place of str.lower().
lower_SwapCase(text) ==
    [k \in 1..Len(text) |->
        CASE text[k] = "a" -> "A"
          [] text[k] = "e_acute" -> "E_ACUTE"
          [] OTHER -> LowerChar(text[k])]

lower(text) == [k \in 1..Len(text) |-> LowerChar(text[k])]

\* unicodedata.normalize("NFKD", .), one character.
DecomposeChar(ch) ==
    CASE ch = "e_acute" -> <<"e", "comb_acute">>
      [] ch = "E_ACUTE" -> <<"E", "comb_acute">>
      [] OTHER -> <<ch>>

RECURSIVE NFKD(_)
NFKD(text) ==
    IF text = <<>> THEN <<>> ELSE DecomposeChar(Head(text)) \o NFKD(Tail(text))

\* .encode("ascii", "ignore").decode("ascii")
AsciiIgnore(text) == SelectSeq(text, LAMBDA ch : Ord(ch) < 128)

\* A key built without the last step, the filter on "a" <= ch <= "z".
normalize_word_NoFilter(raw_word) ==
    AsciiIgnore(NFKD(lower(clean_whitespace(raw_word))))

normalize_word(raw_word) ==
    LET lowered == lower(clean_whitespace(raw_word))
        decomposed == NFKD(lowered)
        ascii_text == AsciiIgnore(decomposed)
    IN  SelectSeq(ascii_text, IsLower_az)

\* a < b on str: code point by code point, a proper prefix first.
RECURSIVE TextLess(_, _)
TextLess(a, b) ==
    IF b = <<>> THEN FALSE
    ELSE IF a = <<>> THEN TRUE
    ELSE IF Ord(Head(a)) # Ord(Head(b)) THEN Ord(Head(a)) < Ord(Head(b))
    ELSE TextLess(Tail(a), Tail(b))

---------------------------------------------------------------------------
(* Numeric CSV fields.                                                     *)

\* str(n) for the integers the model writes.
str(n) ==
    CASE n = 0 -> "0" [] n = 1 -> "1" [] n = 2 -> "2" [] n = 3 -> "3"
      [] n = 4 -> "4" [] n = 5 -> "5" [] n = 6 -> "6" [] n = 7 -> "7"
      [] n = 8 -> "8" [] n = 9 -> "9"

DecimalFields == {str(n) : n \in 0..9}

\* row.get(column) of a column the file does not have.
None == "<None>"

\* `field or "0"`: a missing (None) or blank field counts as "0".
OrZero(field) == IF field = "" \/ field = None THEN "0" ELSE field

\* int(text) succeeds exactly on decimal texts; anything else raises ValueError.
CanParseInt(text) == text \in DecimalFields

int(text) == CHOOSE n \in 0..9 : str(n) = text

---------------------------------------------------------------------------
(* normalize_dictionary.py                                                 *)

\* A file that does not exist, and a CSV file holding these rows.
NoFile == [exists |-> FALSE, rows |-> <<>>]

CsvFile(rows) == [exists |-> TRUE, rows |-> rows]

\* Raw definitions: empty, one and two characters once cleaned.
RawDefinitions == { <<>>, <<"x", " ">>, <<"x", "y">> }

\* The rows a raw CSV may hold: two spellings of the key "ab" (a capital and a
\* leading blank, a hyphen), two of the key "e" (an accented letter; an accented
\* capital, a tab and a non-Latin letter), two words with no letter at all.
\* entry_index "pos" stands for the position
\* of the row in its file, as the extractor numbers them; "" is a blank field
\* and "x" a field that is no number.
RawRowChoices ==
    [word : {<<" ", "A", "b">>, <<"a", "-", "b">>}, definition : RawDefinitions,
     entry_index : {"pos"}]
    \cup [word : {<<"e_acute">>}, definition : {<<>>, <<"x", "y">>},
          entry_index : {"pos"}]
    \cup [word : {<<"E_ACUTE", "\t", "cyr_ya">>}, definition : {<<"x", " ">>},
          entry_index : {"pos"}]
    \cup [word : {<<"1", " ">>, <<"cyr_ya">>}, definition : {<<"x", " ">>},
          entry_index : {"pos"}]
    \cup [word : {<<" ", "A", "b">>}, definition : {<<"x", " ">>},
          entry_index : {"", "x"}]

MkRawRow(choice, k) ==
    [source_file |-> <<"a">>,
     entry_index |-> IF choice.entry_index = "pos" THEN str(k) ELSE choice.entry_index,
     word |-> choice.word,
     part_of_speech |-> <<"n", " ">>,
     definition |-> choice.definition]

\* An entry whose derived fields are taken from the display word.
MakeEntry_FromWord(row, entry_index, normalized) ==
    [source_file |-> row.source_file,
     entry_index |-> entry_index,
     word |-> clean_whitespace(row.word),
     normalized_word |-> normalized,
     part_of_speech |-> clean_whitespace(row.part_of_speech),
     definition |-> clean_whitespace(row.definition),
     etymology |-> <<>>,
     first_letter |-> clean_whitespace(row.word)[1],
     number_of_letters |-> Len(clean_whitespace(row.word))]

\* NormalizedEntry(...) as built for one row.
MakeEntry(row, entry_index, normalized) ==
    [source_file |-> row.source_file,
     entry_index |-> entry_index,
     word |-> clean_whitespace(row.word),
     normalized_word |-> normalized,
     part_of_speech |-> clean_whitespace(row.part_of_speech),
     definition |-> clean_whitespace(row.definition),
     etymology |-> <<>>,
     first_letter |-> normalized[1],
     number_of_letters |-> Len(normalized)]

\* A resolver in which the later entry wins a tie.
pick_better_definition_TieToLater(existing, candidate) ==
    IF Len(strip(candidate.definition)) >= Len(strip(existing.definition))
    THEN candidate
    ELSE existing

pick_better_definition(existing, candidate) ==
    IF Len(strip(candidate.definition)) > Len(strip(existing.definition))
    THEN candidate
    ELSE existing

\* A record that names the loser as kept and the winner as dropped.
CollisionRecord_Swapped(entry, better, dropped) ==
    [normalized_word |-> entry.normalized_word,
     kept_word |-> dropped.word,
     dropped_word |-> better.word,
     kept_source_file |-> dropped.source_file,
     dropped_source_file |-> better.source_file,
     kept_entry_index |-> str(dropped.entry_index),
     dropped_entry_index |-> str(better.entry_index)]

\* The dict written to the collisions list.
CollisionRecord(entry, better, dropped) ==
    [normalized_word |-> entry.normalized_word,
     kept_word |-> better.word,
     dropped_word |-> dropped.word,
     kept_source_file |-> better.source_file,
     dropped_source_file |-> dropped.source_file,
     kept_entry_index |-> str(better.entry_index),
     dropped_entry_index |-> str(dropped.entry_index)]

\* Position of key in the dict (0: kept_by_normalized.get(key) is None).
KeptPos(kept, key) ==
    IF \E k \in 1..Len(kept) : kept[k].normalized_word = key
    THEN CHOOSE k \in 1..Len(kept) : kept[k].normalized_word = key
    ELSE 0

\* One row of the output CSV.
OutputRow(e) ==
    [source_file |-> e.source_file,
     entry_index |-> str(e.entry_index),
     word |-> e.word,
     normalized_word |-> e.normalized_word,
     part_of_speech |-> e.part_of_speech,
     definition |-> e.definition,
     etymology |-> e.etymology,
     first_letter |-> <<e.first_letter>>,
     number_of_letters |-> str(e.number_of_letters)]

\* The report of a verifier that has printed no violation.
NoReport == [shown |-> <<>>, more |-> 0]

\* The variables of a stage that does not run.
NormIdle ==
    /\ raw_rows = <<>>
    /\ do_dedupe = FALSE
    /\ normalized_entries = <<>>
    /\ dropped_empty = 0
    /\ dropped_nonalpha = 0
    /\ kept_by_normalized = <<>>
    /\ collisions = <<>>
    /\ final_entries = <<>>
    /\ norm_output = NoFile
    /\ collisions_file = NoFile
    /\ norm_exit = "none"

RankIdle ==
    /\ rank_rows = <<>>
    /\ rows_sorted = <<>>
    /\ ranked_rows = <<>>
    /\ rank_output = NoFile
    /\ rank_exit = "none"

CheckIdle ==
    /\ check_rows = <<>>
    /\ seen_ranks = {}
    /\ last_word = <<>>
    /\ errors = <<>>
    /\ check_exit = "none"
    /\ check_report = NoReport

WordIdle ==
    /\ word_raw = <<>>
    /\ word_key = <<>>
    /\ word_rekey = <<>>
    /\ word_clean_key = <<>>

ExtractIdle ==
    /\ globbed = <<>>
    /\ html = <<>>
    /\ file_paths = <<>>
    /\ file_i = 1
    /\ entry_idx = 0
    /\ all_entries = <<>>
    /\ raw_output = NoFile
    /\ extract_exit = "none"

EnrichIdle ==
    /\ enrich_rows = <<>>
    /\ max_calls = 0
    /\ force_refresh = FALSE
    /\ cache = <<>>
    /\ api_calls = 0
    /\ cache_hits = 0
    /\ cache_misses = 0
    /\ enriched_count = 0
    /\ enriched_rows = <<>>
    /\ enrich_output = NoFile
    /\ enrich_exit = "none"

DbIdle ==
    /\ db_table = <<>>
    /\ db_rows = <<>>
    /\ dry_run = TRUE
    /\ refresh = FALSE
    /\ db_cache = <<>>
    /\ db_run = 1
    /\ db_log = <<>>
    /\ db_summary = <<>>
    /\ db_exit = "none"

SideIdle ==
    /\ ExtractIdle
    /\ EnrichIdle
    /\ DbIdle

NormInit ==
    /\ pc = "normalize"
    /\ RankIdle
    /\ CheckIdle
    /\ WordIdle
    /\ first_output = NoFile
    /\ SideIdle
    /\ \E n \in 0..MaxRows : \E choices \in [1..n -> RawRowChoices] :
           raw_rows = [k \in 1..n |-> MkRawRow(choices[k], k)]
    /\ do_dedupe \in BOOLEAN
    /\ row_i = 1
    /\ normalized_entries = <<>>
    /\ dropped_empty = 0
    /\ dropped_nonalpha = 0
    /\ kept_by_normalized = <<>>
    /\ collisions = <<>>
    /\ final_entries = <<>>
    /\ norm_output = NoFile
    /\ collisions_file = NoFile
    /\ norm_exit = "none"

\* A loop that counts a word without letters as a non-alphabetic one.
RowOutcome_EmptyAsNonAlpha(normalized) ==
    IF normalized = <<>> \/ \E k \in 1..Len(normalized) : ~IsLower_az(normalized[k])
    THEN "dropped_nonalpha"
    ELSE "entry"

\* What the loop does with a row, given its key: `if not normalized`,
\* `if any(ch < "a" or ch > "z" for ch in normalized)`, else an entry.
RowOutcome(normalized) ==
    IF normalized = <<>> THEN "dropped_empty"
    ELSE IF \E k \in 1..Len(normalized) : ~IsLower_az(normalized[k])
    THEN "dropped_nonalpha"
    ELSE "entry"

\* One iteration of `for row in raw_rows`.
NormalizeRow ==
    /\ pc = "normalize"
    /\ row_i <= Len(raw_rows)
    /\ LET row == raw_rows[row_i]
           index_text == OrZero(row.entry_index)
       IN  IF ~CanParseInt(index_text)
           THEN \* int() raises ValueError, nothing catches it
                /\ pc' = "raised"
                /\ norm_exit' = 1
                /\ UNCHANGED <<row_i, normalized_entries, dropped_empty,
                               dropped_nonalpha>>
           ELSE LET normalized == normalize_word(row.word)
                IN  /\ pc' = pc
                    /\ norm_exit' = norm_exit
                    /\ row_i' = row_i + 1
                    /\ IF RowOutcome(normalized) = "dropped_empty"
                       THEN /\ dropped_empty' = dropped_empty + 1
                            /\ UNCHANGED <<dropped_nonalpha, normalized_entries>>
                       ELSE IF RowOutcome(normalized) = "dropped_nonalpha"
                       THEN /\ dropped_nonalpha' = dropped_nonalpha + 1
                            /\ UNCHANGED <<dropped_empty, normalized_entries>>
                       ELSE /\ normalized_entries' =
                                Append(normalized_entries,
                                       MakeEntry(row, int(index_text), normalized))
                            /\ UNCHANGED <<dropped_empty, dropped_nonalpha>>
    /\ UNCHANGED <<raw_rows, do_dedupe, kept_by_normalized, collisions,
                   final_entries, norm_output, collisions_file>>
    /\ UNCHANGED <<rank_vars, check_vars, word_vars, first_output, side_vars>>

\* A normalizer that resolves collisions whatever --dedupe says.
EndNormalize_AlwaysDedupe ==
    /\ pc = "normalize"
    /\ row_i > Len(raw_rows)
    /\ pc' = "dedupe"
    /\ row_i' = 1
    /\ UNCHANGED <<raw_rows, do_dedupe, normalized_entries, dropped_empty,
                   dropped_nonalpha, kept_by_normalized, collisions, norm_output,
                   collisions_file, norm_exit, final_entries>>
    /\ UNCHANGED <<rank_vars, check_vars, word_vars, first_output, side_vars>>

\* The row loop is over: `if do_dedupe:` ... `else: final_entries = normalized_entries`.
EndNormalize ==
    /\ pc = "normalize"
    /\ row_i > Len(raw_rows)
    /\ IF do_dedupe
       THEN /\ pc' = "dedupe"
            /\ row_i' = 1
            /\ UNCHANGED final_entries
       ELSE /\ pc' = "write"
            /\ final_entries' = normalized_entries
            /\ UNCHANGED row_i
    /\ UNCHANGED <<raw_rows, do_dedupe, normalized_entries, dropped_empty,
                   dropped_nonalpha, kept_by_normalized, collisions, norm_output,
                   collisions_file, norm_exit>>
    /\ UNCHANGED <<rank_vars, check_vars, word_vars, first_output, side_vars>>

\* A resolver that logs a collision only when the earlier entry stays.
DedupeFold_ReplacedUnlogged(kept, log, entry) ==
    LET pos == KeptPos(kept, entry.normalized_word)
    IN  IF pos = 0
        THEN [kept |-> Append(kept, entry), log |-> log]
        ELSE LET existing == kept[pos]
                 better == pick_better_definition(existing, entry)
             IN  [kept |-> [kept EXCEPT ![pos] = better],
                  log |-> IF better = existing
                          THEN Append(log, CollisionRecord(entry, better, entry))
                          ELSE log]

\* The state of the resolver after it has taken one entry.
DedupeFold(kept, log, entry) ==
    LET pos == KeptPos(kept, entry.normalized_word)
    IN  IF pos = 0
        THEN [kept |-> Append(kept, entry), log |-> log]
        ELSE LET existing == kept[pos]
                 better == pick_better_definition(existing, entry)
                 dropped == IF better = existing THEN entry ELSE existing
             IN  [kept |-> [kept EXCEPT ![pos] = better],
                  log |-> Append(log, CollisionRecord(entry, better, dropped))]

\* One iteration of `for entry in normalized_entries`.
DedupeStep ==
    /\ pc = "dedupe"
    /\ row_i <= Len(normalized_entries)
    /\ LET next == DedupeFold(kept_by_normalized, collisions,
                              normalized_entries[row_i])
       IN  /\ kept_by_normalized' = next.kept
           /\ collisions' = next.log
    /\ row_i' = row_i + 1
    /\ UNCHANGED <<pc, raw_rows, do_dedupe, normalized_entries, dropped_empty,
                   dropped_nonalpha, final_entries, norm_output, collisions_file,
                   norm_exit>>
    /\ UNCHANGED <<rank_vars, check_vars, word_vars, first_output, side_vars>>

\* final_entries = list(kept_by_normalized.values())
EndDedupe ==
    /\ pc = "dedupe"
    /\ row_i > Len(normalized_entries)
    /\ final_entries' = kept_by_normalized
    /\ pc' = "write"
    /\ UNCHANGED <<raw_rows, do_dedupe, row_i, normalized_entries, dropped_empty,
                   dropped_nonalpha, kept_by_normalized, collisions, norm_output,
                   collisions_file, norm_exit>>
    /\ UNCHANGED <<rank_vars, check_vars, word_vars, first_output, side_vars>>

\* The collision report is written when there are collisions, then the output.
WriteNormalized ==
    /\ pc = "write"
    /\ collisions_file' = IF collisions # <<>> THEN CsvFile(collisions)
                                               ELSE collisions_file
    /\ norm_output' =
           CsvFile([k \in 1..Len(final_entries) |-> OutputRow(final_entries[k])])
    /\ norm_exit' = 0
    /\ pc' = "normalized"
    /\ UNCHANGED <<raw_rows, do_dedupe, row_i, normalized_entries, dropped_empty,
                   dropped_nonalpha, kept_by_normalized, collisions, final_entries>>
    /\ UNCHANGED <<rank_vars, check_vars, word_vars, first_output, side_vars>>

NormNext ==
    \/ NormalizeRow
    \/ EndNormalize
    \/ DedupeStep
    \/ EndDedupe
    \/ WriteNormalized

Init == NormInit

Next == NormNext

Spec == Init /\ [][Next]_vars

\* The normalizer run where an earlier run may have left its collision
\* report: that of a run on two rows that collide under "ab".
EarlierRows ==
    <<MkRawRow([word |-> <<" ", "A", "b">>, definition |-> <<>>,
                entry_index |-> "pos"], 1),
      MkRawRow([word |-> <<"a", "-", "b">>, definition |-> <<"x", "y">>,
                entry_index |-> "pos"], 2)>>

EarlierEntries ==
    [k \in 1..Len(EarlierRows) |->
        MakeEntry(EarlierRows[k], int(EarlierRows[k].entry_index),
                  normalize_word(EarlierRows[k].word))]

EarlierReport ==
    LET first == DedupeFold(<<>>, <<>>, EarlierEntries[1])
    IN  CsvFile(DedupeFold(first.kept, first.log, EarlierEntries[2]).log)

StaleInit ==
    /\ pc = "normalize"
    /\ RankIdle
    /\ CheckIdle
    /\ WordIdle
    /\ first_output = NoFile
    /\ SideIdle
    /\ \E n \in 0..MaxRows : \E choices \in [1..n -> RawRowChoices] :
           raw_rows = [k \in 1..n |-> MkRawRow(choices[k], k)]
    /\ do_dedupe \in BOOLEAN
    /\ row_i = 1
    /\ normalized_entries = <<>>
    /\ dropped_empty = 0
    /\ dropped_nonalpha = 0
    /\ kept_by_normalized = <<>>
    /\ collisions = <<>>
    /\ final_entries = <<>>
    /\ norm_output = NoFile
    /\ collisions_file \in {NoFile, EarlierReport}
    /\ norm_exit = "none"

SpecStale == StaleInit /\ [][NormNext]_vars

---------------------------------------------------------------------------
(* normalize_word as a function of the word.                               *)

\* One or two characters of each class: ASCII lowercase, ASCII uppercase,
\* accented Latin, digit, punctuation, whitespace, non-Latin.
WordAlphabet ==
    {"a", "A", "e_acute", "E_ACUTE", "1", "-", "'", " ", "\t", "cyr_ya"}

\* The word "Caf<e acute>-123!".
CafeWord == <<"C", "a", "f", "e_acute", "-", "1", "2", "3", "!">>

\* The normalizer is given a raw CSV of one row whose word is any word over
\* WordAlphabet of at most MaxWordLen characters, or CafeWord.
WordInit ==
    /\ pc = "normalize_word"
    /\ \/ \E n \in 0..MaxWordLen : \E w \in [1..n -> WordAlphabet] : word_raw = w
       \/ word_raw = CafeWord
    /\ word_key = <<>>
    /\ word_rekey = <<>>
    /\ word_clean_key = <<>>
    /\ raw_rows = <<MkRawRow([word |-> word_raw, definition |-> <<"x", "y">>,
                              entry_index |-> "pos"], 1)>>
    /\ do_dedupe = TRUE
    /\ row_i = 1
    /\ normalized_entries = <<>>
    /\ dropped_empty = 0
    /\ dropped_nonalpha = 0
    /\ kept_by_normalized = <<>>
    /\ collisions = <<>>
    /\ final_entries = <<>>
    /\ norm_output = NoFile
    /\ collisions_file = NoFile
    /\ norm_exit = "none"
    /\ RankIdle
    /\ CheckIdle
    /\ first_output = NoFile
    /\ SideIdle

\* normalize_word applied to the word, to its own result and to the cleaned
\* word; the normalizer then runs on the row.
ApplyNormalizeWord ==
    /\ pc = "normalize_word"
    /\ word_key' = normalize_word(word_raw)
    /\ word_rekey' = normalize_word(normalize_word(word_raw))
    /\ word_clean_key' = normalize_word(clean_whitespace(word_raw))
    /\ pc' = "normalize"
    /\ UNCHANGED <<word_raw, row_i, norm_vars, rank_vars, check_vars, first_output,
                   side_vars>>

WordNext ==
    \/ ApplyNormalizeWord
    \/ NormNext

SpecWord == WordInit /\ [][WordNext]_vars

---------------------------------------------------------------------------
(* compute_lex_rank.py                                                     *)

\* The rows a normalized CSV may hold: the keys "a", "ab" (two spellings) and
\* "b"; entry_index as in RawRowChoices.
RankRowChoices ==
    [normalized_word : {<<"a", "b">>}, word : {<<"A", "b">>, <<"a", "-", "b">>},
     entry_index : {"pos", ""}]
    \cup [normalized_word : {<<"a">>}, word : {<<"a">>}, entry_index : {"pos", ""}]
    \cup [normalized_word : {<<"b">>}, word : {<<"b">>}, entry_index : {"pos", ""}]
    \cup [normalized_word : {<<"b">>}, word : {<<"b">>}, entry_index : {"x"}]

\* prior is the lex_rank field the file already carries (None: no such column).
MkRankRow(choice, k, prior) ==
    [source_file |-> <<"a">>,
     entry_index |-> IF choice.entry_index = "pos" THEN str(k) ELSE choice.entry_index,
     word |-> choice.word,
     normalized_word |-> choice.normalized_word,
     part_of_speech |-> <<"n">>,
     definition |-> <<"x">>,
     etymology |-> <<>>,
     first_letter |-> <<choice.normalized_word[1]>>,
     number_of_letters |-> str(Len(choice.normalized_word)),
     lex_rank |-> prior]

\* A key without the entry_index.
sort_key_NoIndex(row) ==
    <<row.normalized_word, row.word, row.source_file, 0>>

\* A key that orders by the display word before the canonical key.
sort_key_WordFirst(row) ==
    <<row.word, row.normalized_word, row.source_file, int(OrZero(row.entry_index))>>

sort_key(row) ==
    <<row.normalized_word, row.word, row.source_file, int(OrZero(row.entry_index))>>

\* Tuple comparison of two sort keys.
KeyLess(k1, k2) ==
    IF k1[1] # k2[1] THEN TextLess(k1[1], k2[1])
    ELSE IF k1[2] # k2[2] THEN TextLess(k1[2], k2[2])
    ELSE IF k1[3] # k2[3] THEN TextLess(k1[3], k2[3])
    ELSE k1[4] < k2[4]

\* An insertion in front of the rows of equal key: a sort that is not stable.
RECURSIVE InsertByKey_BeforeEqual(_, _)
InsertByKey_BeforeEqual(list, row) ==
    IF list = <<>> THEN <<row>>
    ELSE IF ~KeyLess(sort_key(Head(list)), sort_key(row)) THEN <<row>> \o list
    ELSE <<Head(list)>> \o InsertByKey_BeforeEqual(Tail(list), row)

\* Insert row behind every row of the sorted list whose key is not greater.
RECURSIVE InsertByKey(_, _)
InsertByKey(list, row) ==
    IF list = <<>> THEN <<row>>
    ELSE IF KeyLess(sort_key(row), sort_key(Head(list))) THEN <<row>> \o list
    ELSE <<Head(list)>> \o InsertByKey(Tail(list), row)

\* sorted(rows, key=sort_key): a stable sort.
RECURSIVE sorted(_)
sorted(rows) ==
    IF rows = <<>> THEN <<>>
    ELSE InsertByKey(sorted(SubSeq(rows, 1, Len(rows) - 1)), rows[Len(rows)])

\* A rank counted from 0.
RankedRow_ZeroBased(row, idx) == [row EXCEPT !.lex_rank = idx - 1]

\* {**row, "lex_rank": idx}
RankedRow(row, idx) == [row EXCEPT !.lex_rank = idx]

\* The row as the CSV writer writes it.
RankedOutputRow(row) == [row EXCEPT !.lex_rank = str(row.lex_rank)]

RankInit ==
    /\ pc = "rank_sort"
    /\ row_i = 1
    /\ NormIdle
    /\ CheckIdle
    /\ WordIdle
    /\ first_output = NoFile
    /\ SideIdle
    /\ \E n \in 0..MaxRankRows : \E choices \in [1..n -> RankRowChoices] :
           \E prior \in {None, "1"} :
               rank_rows = [k \in 1..n |-> MkRankRow(choices[k], k, prior)]
    /\ rows_sorted = <<>>
    /\ ranked_rows = <<>>
    /\ rank_output = NoFile
    /\ rank_exit = "none"

\* rows_sorted = sorted(rows, key=sort_key); sort_key raises ValueError on an
\* entry_index that is no number.
RankSort ==
    /\ pc = "rank_sort"
    /\ IF \E k \in 1..Len(rank_rows) : ~CanParseInt(OrZero(rank_rows[k].entry_index))
       THEN /\ pc' = "raised"
            /\ rank_exit' = 1
            /\ UNCHANGED <<rows_sorted, row_i>>
       ELSE /\ rows_sorted' = sorted(rank_rows)
            /\ row_i' = 1
            /\ pc' = "rank_assign"
            /\ UNCHANGED rank_exit
    /\ UNCHANGED <<rank_rows, ranked_rows, rank_output>>
    /\ UNCHANGED <<norm_vars, check_vars, word_vars, first_output, side_vars>>

\* One iteration of `for idx, row in enumerate(rows_sorted, start=1)`.
RankAssign ==
    /\ pc = "rank_assign"
    /\ row_i <= Len(rows_sorted)
    /\ ranked_rows' = Append(ranked_rows, RankedRow(rows_sorted[row_i], row_i))
    /\ row_i' = row_i + 1
    /\ UNCHANGED <<pc, rank_rows, rows_sorted, rank_output, rank_exit>>
    /\ UNCHANGED <<norm_vars, check_vars, word_vars, first_output, side_vars>>

\* write_csv_rows(args.output, ..., rows=ranked_rows); return 0
WriteRanked ==
    /\ pc = "rank_assign"
    /\ row_i > Len(rows_sorted)
    /\ rank_output' =
           CsvFile([k \in 1..Len(ranked_rows) |-> RankedOutputRow(ranked_rows[k])])
    /\ rank_exit' = 0
    /\ pc' = "ranked"
    /\ UNCHANGED <<row_i, rank_rows, rows_sorted, ranked_rows>>
    /\ UNCHANGED <<norm_vars, check_vars, word_vars, first_output, side_vars>>

RankNext ==
    \/ RankSort
    \/ RankAssign
    \/ WriteRanked

SpecRank == RankInit /\ [][RankNext]_vars

\* Rows for a run that is repeated on its own output: the keys "a" and "b",
\* entry_index the position or blank, and one of two definitions, so that
\* rows of equal sort key can differ.
RerunRowChoices ==
    [key : {<<"a">>, <<"b">>}, entry_index : {"pos", ""},
     definition : {<<"x">>, <<"y">>}]

MkRerunRow(choice, k) ==
    [MkRankRow([normalized_word |-> choice.key, word |-> choice.key,
                entry_index |-> choice.entry_index], k, None)
        EXCEPT !.definition = choice.definition]

RerunInit ==
    /\ pc = "rank_sort"
    /\ row_i = 1
    /\ NormIdle
    /\ CheckIdle
    /\ WordIdle
    /\ first_output = NoFile
    /\ SideIdle
    /\ \E n \in 0..MaxRankRows : \E choices \in [1..n -> RerunRowChoices] :
           rank_rows = [k \in 1..n |-> MkRerunRow(choices[k], k)]
    /\ rows_sorted = <<>>
    /\ ranked_rows = <<>>
    /\ rank_output = NoFile
    /\ rank_exit = "none"

\* The rank assigner is run again with its own output as --input, as it is or
\* with the lex_rank column taken out.
RerunOnOutput ==
    /\ pc = "ranked"
    /\ ~first_output.exists
    /\ first_output' = rank_output
    /\ \E stripped \in BOOLEAN :
           rank_rows' = [k \in 1..Len(rank_output.rows) |->
                            IF stripped
                            THEN [rank_output.rows[k] EXCEPT !.lex_rank = None]
                            ELSE rank_output.rows[k]]
    /\ rows_sorted' = <<>>
    /\ ranked_rows' = <<>>
    /\ rank_output' = NoFile
    /\ rank_exit' = "none"
    /\ row_i' = 1
    /\ pc' = "rank_sort"
    /\ UNCHANGED <<norm_vars, check_vars, word_vars, side_vars>>

RerunNext ==
    \/ RankNext
    \/ RerunOnOutput

SpecRerun == RerunInit /\ [][RerunNext]_vars

---------------------------------------------------------------------------
(* sanity_check_ranked.py                                                  *)

\* The rows a ranked CSV may hold.  Sound rows carry the word "a" or "b" with
\* any lex_rank field ("": blank); the other rows carry one defect each, or
\* several, and lex_rank "pos", the position of the row in the file.
CheckRowChoices ==
    [normalized_word : {<<"a">>}, first_letter : {<<"a">>},
     number_of_letters : {"1"}, lex_rank : {"", "1", "2", "3"}]
    \cup [normalized_word : {<<"b">>}, first_letter : {<<"b">>},
          number_of_letters : {"1"}, lex_rank : {"", "1", "2", "3"}]
    \cup [normalized_word : {<<" ", "a">>}, first_letter : {<<"a">>},
          number_of_letters : {"1"}, lex_rank : {"pos"}]
    \cup [normalized_word : {<<"A">>}, first_letter : {<<"A">>, <<"a">>},
          number_of_letters : {"1"}, lex_rank : {"pos"}]
    \cup [normalized_word : {<<>>}, first_letter : {<<>>},
          number_of_letters : {"", "1"}, lex_rank : {"pos"}]
    \cup [normalized_word : {<<"b">>}, first_letter : {<<"a">>},
          number_of_letters : {"1", "2"}, lex_rank : {"pos"}]
    \cup [normalized_word : {<<"b">>}, first_letter : {<<"b">>},
          number_of_letters : {"2"}, lex_rank : {"pos"}]

MkCheckRow(choice, k) ==
    [normalized_word |-> choice.normalized_word,
     first_letter |-> choice.first_letter,
     number_of_letters |-> choice.number_of_letters,
     lex_rank |-> IF choice.lex_rank = "pos" THEN str(k) ELSE choice.lex_rank]

\* One entry of the errors list: the row it names (0: the whole file) and
\* the check that failed.
Violation(idx, kind) == [row |-> idx, kind |-> kind]

\* A test made after the rank has been added to the set.
IsDuplicateRank_AfterAdd(lex_rank, seen) == lex_rank \in (seen \cup {lex_rank})

\* `lex_rank in seen_ranks`, before seen_ranks.add(lex_rank)
IsDuplicateRank(lex_rank, seen) == lex_rank \in seen

\* The violations one row adds, in the order of the checks.
RowViolations(idx, normalized, first_letter, number_of_letters, lex_rank, seen, last) ==
    (IF normalized = <<>> THEN <<Violation(idx, "empty")>> ELSE <<>>)
    \o (IF normalized # <<>>
           /\ \E k \in 1..Len(normalized) : ~IsLower_az(normalized[k])
        THEN <<Violation(idx, "non_az")>> ELSE <<>>)
    \o (IF normalized # <<>> /\ first_letter # <<normalized[1]>>
        THEN <<Violation(idx, "first_letter")>> ELSE <<>>)
    \o (IF normalized # <<>> /\ number_of_letters # Len(normalized)
        THEN <<Violation(idx, "length")>> ELSE <<>>)
    \o (IF IsDuplicateRank(lex_rank, seen)
        THEN <<Violation(idx, "duplicate")>> ELSE <<>>)
    \o (IF last # <<>> /\ normalized # <<>> /\ TextLess(normalized, last)
        THEN <<Violation(idx, "ordering")>> ELSE <<>>)

\* A test that only bounds the ranks from above.
RanksContiguous_UpperBoundOnly(seen, expected_max) ==
    \A r \in seen : r <= expected_max

\* seen_ranks == set(range(1, expected_max + 1))
RanksContiguous(seen, expected_max) == seen = 1..expected_max

CheckInit ==
    /\ pc = "check_read"
    /\ row_i = 1
    /\ NormIdle
    /\ RankIdle
    /\ WordIdle
    /\ first_output = NoFile
    /\ SideIdle
    /\ \E n \in 0..MaxCheckRows : \E choices \in [1..n -> CheckRowChoices] :
           check_rows = [k \in 1..n |-> MkCheckRow(choices[k], k)]
    /\ seen_ranks = {}
    /\ last_word = <<>>    \* None
    /\ errors = <<>>
    /\ check_exit = "none"
    /\ check_report = NoReport

\* rows = read_csv_rows(args.input); `if not rows: return 2`
CheckRead ==
    /\ pc = "check_read"
    /\ IF check_rows = <<>>
       THEN /\ check_exit' = 2
            /\ pc' = "checked"
       ELSE /\ pc' = "check_rows"
            /\ UNCHANGED check_exit
    /\ UNCHANGED <<row_i, check_rows, seen_ranks, last_word, errors, check_report>>
    /\ UNCHANGED <<norm_vars, rank_vars, word_vars, first_output, side_vars>>

\* One iteration of `for idx, row in enumerate(rows, start=1)`.
CheckRow ==
    /\ pc = "check_rows"
    /\ row_i <= Len(check_rows)
    /\ LET row == check_rows[row_i]
           normalized == strip(row.normalized_word)
           first_letter == strip(row.first_letter)
           letters_text == OrZero(row.number_of_letters)
           rank_text == OrZero(row.lex_rank)
       IN  IF ~CanParseInt(letters_text) \/ ~CanParseInt(rank_text)
           THEN \* int() raises ValueError, nothing catches it
                /\ pc' = "raised"
                /\ check_exit' = 1
                /\ UNCHANGED <<row_i, seen_ranks, last_word, errors>>
           ELSE /\ errors' = errors \o RowViolations(row_i, normalized, first_letter,
                                                     int(letters_text), int(rank_text),
                                                     seen_ranks, last_word)
                /\ seen_ranks' = seen_ranks \cup {int(rank_text)}
                /\ last_word' = IF normalized # <<>> THEN normalized ELSE last_word
                /\ row_i' = row_i + 1
                /\ UNCHANGED <<pc, check_exit>>
    /\ UNCHANGED <<check_rows, check_report>>
    /\ UNCHANGED <<norm_vars, rank_vars, word_vars, first_output, side_vars>>

\* Number of violations the report prints: `errors[:50]`.
ReportLimit == 50

\* A report without the line that counts the rest.
report_NoRemainder(all_errors) ==
    [shown |-> SubSeq(all_errors, 1,
                      IF Len(all_errors) > ReportLimit THEN ReportLimit
                      ELSE Len(all_errors)),
     more |-> 0]

\* `for e in errors[:50]: print(...)`, then
\* `if len(errors) > 50: print(f"... {len(errors) - 50} more")`
report(all_errors) ==
    [shown |-> SubSeq(all_errors, 1,
                      IF Len(all_errors) > ReportLimit THEN ReportLimit
                      ELSE Len(all_errors)),
     more |-> IF Len(all_errors) > ReportLimit
              THEN Len(all_errors) - ReportLimit ELSE 0]

\* A report that is printed without the failing return.
exit_status_AlwaysOk(all_errors) == 0

\* `if errors: ... return 1`, else `return 0`
exit_status(all_errors) == IF all_errors # <<>> THEN 1 ELSE 0

\* After the loop: the contiguity test, the report and the exit status.
CheckFinish ==
    /\ pc = "check_rows"
    /\ row_i > Len(check_rows)
    /\ LET all_errors ==
               IF RanksContiguous(seen_ranks, Len(check_rows)) THEN errors
               ELSE Append(errors, Violation(0, "not_contiguous"))
       IN  /\ errors' = all_errors
           /\ check_exit' = exit_status(all_errors)
           /\ check_report' = report(all_errors)
    /\ pc' = "checked"
    /\ UNCHANGED <<row_i, check_rows, seen_ranks, last_word>>
    /\ UNCHANGED <<norm_vars, rank_vars, word_vars, first_output, side_vars>>

CheckNext ==
    \/ CheckRead
    \/ CheckRow
    \/ CheckFinish

SpecCheck == CheckInit /\ [][CheckNext]_vars

\* The rows of CheckRowChoices, and rows whose number_of_letters or lex_rank
\* column is missing (None) or holds a text that is no integer.
CheckFieldChoices ==
    CheckRowChoices
    \cup [normalized_word : {<<"a">>}, first_letter : {<<"a">>},
          number_of_letters : {None, "x"}, lex_rank : {"pos"}]
    \cup [normalized_word : {<<"a">>}, first_letter : {<<"a">>},
          number_of_letters : {"1"}, lex_rank : {None, "x"}]

\* A ranked CSV of any rows, malformed numeric fields included.
CheckFieldsInit ==
    /\ pc = "check_read"
    /\ row_i = 1
    /\ NormIdle
    /\ RankIdle
    /\ WordIdle
    /\ first_output = NoFile
    /\ SideIdle
    /\ \E n \in 0..MaxCheckRows : \E choices \in [1..n -> CheckFieldChoices] :
           check_rows = [k \in 1..n |-> MkCheckRow(choices[k], k)]
    /\ seen_ranks = {}
    /\ last_word = <<>>
    /\ errors = <<>>
    /\ check_exit = "none"
    /\ check_report = NoReport

SpecCheckFields == CheckFieldsInit /\ [][CheckNext]_vars

\* Rows for long reports: a sound row, and a row with a capital for a word, a
\* first_letter and a number_of_letters that do not fit it; all without rank.
ReportRowChoices ==
    [normalized_word : {<<"a">>}, first_letter : {<<"a">>},
     number_of_letters : {"1"}, lex_rank : {""}]
    \cup [normalized_word : {<<"A">>}, first_letter : {<<"a">>},
          number_of_letters : {"2"}, lex_rank : {""}]

CheckReportInit ==
    /\ pc = "check_read"
    /\ row_i = 1
    /\ NormIdle
    /\ RankIdle
    /\ WordIdle
    /\ first_output = NoFile
    /\ SideIdle
    /\ \E n \in 0..MaxReportRows : \E choices \in [1..n -> ReportRowChoices] :
           check_rows = [k \in 1..n |-> MkCheckRow(choices[k], k)]
    /\ seen_ranks = {}
    /\ last_word = <<>>
    /\ errors = <<>>
    /\ check_exit = "none"
    /\ check_report = NoReport

SpecCheckReport == CheckReportInit /\ [][CheckNext]_vars

---------------------------------------------------------------------------
(* The three stages run one after the other (run_pipeline.py).             *)

\* Raw rows for a run of the whole pipeline: two spellings of the key "ab",
\* the key "e", a word with no letter; entry_index the position or blank.
PipeRowChoices ==
    [word : {<<" ", "A", "b">>, <<"a", "-", "b">>, <<"e_acute">>},
     definition : {<<>>, <<"x", "y">>}, entry_index : {"pos"}]
    \cup [word : {<<"1", " ">>}, definition : {<<"x", " ">>}, entry_index : {"pos"}]
    \cup [word : {<<"a", "-", "b">>}, definition : {<<"x", " ">>}, entry_index : {""}]

PipeInit ==
    /\ pc = "normalize"
    /\ RankIdle
    /\ CheckIdle
    /\ WordIdle
    /\ first_output = NoFile
    /\ SideIdle
    /\ \E n \in 0..MaxRows : \E choices \in [1..n -> PipeRowChoices] :
           raw_rows = [k \in 1..n |-> MkRawRow(choices[k], k)]
    /\ do_dedupe \in BOOLEAN
    /\ row_i = 1
    /\ normalized_entries = <<>>
    /\ dropped_empty = 0
    /\ dropped_nonalpha = 0
    /\ kept_by_normalized = <<>>
    /\ collisions = <<>>
    /\ final_entries = <<>>
    /\ norm_output = NoFile
    /\ collisions_file = NoFile
    /\ norm_exit = "none"

\* A row of the normalized CSV as the rank assigner reads it: the file has no
\* lex_rank column.
ReadNormalizedRow(r) ==
    [source_file |-> r.source_file,
     entry_index |-> r.entry_index,
     word |-> r.word,
     normalized_word |-> r.normalized_word,
     part_of_speech |-> r.part_of_speech,
     definition |-> r.definition,
     etymology |-> r.etymology,
     first_letter |-> r.first_letter,
     number_of_letters |-> r.number_of_letters,
     lex_rank |-> None]

\* The normalizer has returned 0: the rank assigner is started on its output.
StartRank ==
    /\ pc = "normalized"
    /\ norm_exit = 0
    /\ rank_rows' = [k \in 1..Len(norm_output.rows) |->
                        ReadNormalizedRow(norm_output.rows[k])]
    /\ row_i' = 1
    /\ pc' = "rank_sort"
    /\ UNCHANGED <<rows_sorted, ranked_rows, rank_output, rank_exit>>
    /\ UNCHANGED <<norm_vars, check_vars, word_vars, first_output, side_vars>>

\* The rank assigner has returned 0: the verifier is started on its output.
StartCheck ==
    /\ pc = "ranked"
    /\ rank_exit = 0
    /\ check_rows' = rank_output.rows
    /\ row_i' = 1
    /\ pc' = "check_read"
    /\ UNCHANGED <<seen_ranks, last_word, errors, check_exit, check_report>>
    /\ UNCHANGED <<norm_vars, rank_vars, word_vars, first_output, side_vars>>

PipeNext ==
    \/ NormNext
    \/ StartRank
    \/ RankNext
    \/ StartCheck
    \/ CheckNext

SpecPipe == PipeInit /\ [][PipeNext]_vars

---------------------------------------------------------------------------
(* parse_opted_html.py                                                     *)

\* The paths the glob pattern may match.
ExtractPaths == {<<"b">>, <<"a", "b">>}

\* A <p> tag: without <b>, with a <b> whose text is blank, with a headword.
ParagraphKinds == {"no_b", "blank_b", "entry"}

\* Number of <p> tags of a file.
MaxParagraphs == 2

ParagraphLists == UNION {[1..n -> ParagraphKinds] : n \in 0..MaxParagraphs}

\* Insert path into a sorted list of paths.
RECURSIVE InsertPath(_, _)
InsertPath(list, path) ==
    IF list = <<>> THEN <<path>>
    ELSE IF TextLess(path, Head(list)) THEN <<path>> \o list
    ELSE <<Head(list)>> \o InsertPath(Tail(list), path)

\* sorted(glob.glob(pattern))
RECURSIVE sorted_glob(_)
sorted_glob(paths) ==
    IF paths = <<>> THEN <<>>
    ELSE InsertPath(sorted_glob(SubSeq(paths, 1, Len(paths) - 1)), paths[Len(paths)])

ExtractInit ==
    /\ pc = "extract_glob"
    /\ row_i = 1
    /\ NormIdle
    /\ RankIdle
    /\ CheckIdle
    /\ WordIdle
    /\ first_output = NoFile
    /\ EnrichIdle
    /\ DbIdle
    /\ \E matched \in SUBSET ExtractPaths :
           /\ \E order \in [1..Cardinality(matched) -> matched] :
                  /\ \A j, k \in DOMAIN order : j # k => order[j] # order[k]
                  /\ globbed = order
           /\ html \in [matched -> ParagraphLists]
    /\ file_paths = <<>>
    /\ file_i = 1
    /\ entry_idx = 0
    /\ all_entries = <<>>
    /\ raw_output = NoFile
    /\ extract_exit = "none"

\* file_paths = sorted_glob(args.input_glob); `if not file_paths: return 2`
ExtractGlob ==
    /\ pc = "extract_glob"
    /\ file_paths' = sorted_glob(globbed)
    /\ IF globbed = <<>>
       THEN /\ extract_exit' = 2
            /\ pc' = "extracted"
       ELSE /\ pc' = "extract_file"
            /\ UNCHANGED extract_exit
    /\ UNCHANGED <<row_i, globbed, html, file_i, entry_idx, all_entries, raw_output>>
    /\ UNCHANGED <<norm_vars, rank_vars, check_vars, word_vars, first_output,
                   enrich_vars, db_vars>>

\* A parser that numbers every <p> tag, the skipped ones too.
ParseParagraph_CountsSkipped(entries, idx, path, kind) ==
    IF kind # "entry" THEN [entries |-> entries, idx |-> idx + 1]
    ELSE [entries |-> Append(entries, [source_file |-> path, entry_index |-> idx + 1,
                                       word |-> <<"a">>, part_of_speech |-> <<"n">>,
                                       definition |-> <<"x">>]),
          idx |-> idx + 1]

\* One iteration of `for p in p_tags`: `continue` without <b> or headword,
\* else entry_index += 1 and the entry is appended.
ParseParagraph(entries, idx, path, kind) ==
    IF kind # "entry" THEN [entries |-> entries, idx |-> idx]
    ELSE [entries |-> Append(entries, [source_file |-> path, entry_index |-> idx + 1,
                                       word |-> <<"a">>, part_of_speech |-> <<"n">>,
                                       definition |-> <<"x">>]),
          idx |-> idx + 1]

ExtractParagraph ==
    /\ pc = "extract_file"
    /\ file_i <= Len(file_paths)
    /\ row_i <= Len(html[file_paths[file_i]])
    /\ LET path == file_paths[file_i]
           next == ParseParagraph(all_entries, entry_idx, path, html[path][row_i])
       IN  /\ all_entries' = next.entries
           /\ entry_idx' = next.idx
    /\ row_i' = row_i + 1
    /\ UNCHANGED <<pc, globbed, html, file_paths, file_i, raw_output, extract_exit>>
    /\ UNCHANGED <<norm_vars, rank_vars, check_vars, word_vars, first_output,
                   enrich_vars, db_vars>>

\* parse_opted_html_file returns; the next file starts with entry_index = 0.
ExtractNextFile ==
    /\ pc = "extract_file"
    /\ file_i <= Len(file_paths)
    /\ row_i > Len(html[file_paths[file_i]])
    /\ file_i' = file_i + 1
    /\ row_i' = 1
    /\ entry_idx' = 0
    /\ UNCHANGED <<pc, globbed, html, file_paths, all_entries, raw_output, extract_exit>>
    /\ UNCHANGED <<norm_vars, rank_vars, check_vars, word_vars, first_output,
                   enrich_vars, db_vars>>

\* write_csv_rows(args.output, ...); return 0
ExtractWrite ==
    /\ pc = "extract_file"
    /\ file_i > Len(file_paths)
    /\ raw_output' = CsvFile([k \in 1..Len(all_entries) |->
                                 [all_entries[k] EXCEPT
                                      !.entry_index = str(all_entries[k].entry_index)]])
    /\ extract_exit' = 0
    /\ pc' = "extracted"
    /\ UNCHANGED <<row_i, globbed, html, file_paths, file_i, entry_idx, all_entries>>
    /\ UNCHANGED <<norm_vars, rank_vars, check_vars, word_vars, first_output,
                   enrich_vars, db_vars>>

ExtractNext ==
    \/ ExtractGlob
    \/ ExtractParagraph
    \/ ExtractNextFile
    \/ ExtractWrite

SpecExtract == ExtractInit /\ [][ExtractNext]_vars

---------------------------------------------------------------------------
(* enrich_dictionaryapi.py                                                 *)

\* Largest --max-calls drawn (0 means no limit).
MaxBudget == 2

\* Largest number of rows of the CSV handed to the enrichment.
MaxEnrichRows == 3

\* A JSON payload: null, or the list of entries of a word, whose first entry
\* has an "origin" string or has none.
NullPayload == [kind |-> "null", has_origin |-> FALSE, origin |-> <<>>]

EntryPayload(has_origin, origin) ==
    [kind |-> "list", has_origin |-> has_origin, origin |-> origin]

\* What _fetch_dictionaryapi can return: None on any error, else the body.
ApiResponses ==
    {NullPayload, EntryPayload(FALSE, <<>>), EntryPayload(TRUE, <<"x", " ">>)}

\* A cache file: absent, unreadable as JSON, or the JSON of a payload.
AbsentCache == [exists |-> FALSE, parses |-> FALSE, payload |-> NullPayload]

CorruptCache == [exists |-> TRUE, parses |-> FALSE, payload |-> NullPayload]

CacheOf(payload) == [exists |-> TRUE, parses |-> TRUE, payload |-> payload]

\* ch.isalnum() or ch in {"_", "-"}, on the characters of the model.
IsSafeChar(ch) ==
    \/ ch \in {"_", "-"}
    \/ Ord(ch) \in (48..57) \cup (65..90) \cup (97..122) \cup {201, 233, 1103}

\* The file name (without ".json") of the cache file of a word.
_cache_path(normalized_word) ==
    LET safe == SelectSeq(normalized_word, IsSafeChar)
    IN  IF safe = <<>> THEN <<"e", "m", "p", "t", "y">> ELSE safe

_extract_origin(payload) ==
    IF payload.kind = "null" THEN <<>>
    ELSE IF payload.has_origin THEN strip(payload.origin)
    ELSE <<>>

\* The budget test with the limit passed by one call.
BudgetExhausted_OffByOne(m, calls) == m # 0 /\ calls > m

\* `max_calls and api_calls >= max_calls`
BudgetExhausted(m, calls) == m # 0 /\ calls >= m

\* The words of the rows, and the cache files they map to.
EnrichWords == {<<"a">>, <<"b">>}

EnrichPaths == {_cache_path(w) : w \in EnrichWords}

\* The body of `for row in rows`, on the counters and the cache directory
\* held in st; resp is what the API returns if it is called.
EnrichBody(row, st, m, force, resp) ==
    LET normalized_word == strip(row.normalized_word)
        etymology == strip(row.etymology)
        path == _cache_path(normalized_word)
        file == st.cache[path]
        read == file.exists /\ ~force
        loaded == read /\ file.parses
        payload0 == IF loaded THEN file.payload ELSE NullPayload
        hits == st.cache_hits + (IF loaded THEN 1 ELSE 0)
        fetch == payload0.kind = "null"
        payload == IF fetch THEN resp ELSE payload0
        origin == _extract_origin(payload)
    IN  IF normalized_word = <<>> \/ etymology # <<>>
        THEN [st EXCEPT !.enriched_rows = Append(@, row)]
        ELSE IF fetch /\ BudgetExhausted(m, st.api_calls)
        THEN [st EXCEPT !.cache_hits = hits,
                        !.enriched_rows = Append(@, row)]
        ELSE [cache |-> IF fetch
                        THEN [st.cache EXCEPT ![path] = CacheOf(resp)]
                        ELSE st.cache,
              api_calls |-> st.api_calls + (IF fetch THEN 1 ELSE 0),
              cache_hits |-> hits,
              cache_misses |-> st.cache_misses + (IF fetch THEN 1 ELSE 0),
              enriched_count |->
                  st.enriched_count + (IF origin # <<>> THEN 1 ELSE 0),
              enriched_rows |->
                  Append(st.enriched_rows,
                         IF origin # <<>>
                         THEN [row EXCEPT !.etymology = origin]
                         ELSE row)]

\* The rows the enrichment is run on: a word to look up, a second word, a
\* row without a key, a row that has an etymology, a row whose etymology is
\* blank.
EnrichRowChoices ==
    {[normalized_word |-> <<"a">>, etymology |-> <<>>],
     [normalized_word |-> <<"b">>, etymology |-> <<>>],
     [normalized_word |-> <<>>, etymology |-> <<>>],
     [normalized_word |-> <<"a">>, etymology |-> <<"y">>],
     [normalized_word |-> <<"a", " ">>, etymology |-> <<" ">>]}

MkEnrichRow(choice, k) ==
    [entry_index |-> str(k),
     normalized_word |-> choice.normalized_word,
     etymology |-> choice.etymology]

\* The cache directory when the run starts.
EnrichCacheChoices ==
    {AbsentCache, CorruptCache, CacheOf(NullPayload),
     CacheOf(EntryPayload(TRUE, <<"x", " ">>))}

EnrichInit ==
    /\ pc = "enrich"
    /\ row_i = 1
    /\ NormIdle
    /\ RankIdle
    /\ CheckIdle
    /\ WordIdle
    /\ first_output = NoFile
    /\ ExtractIdle
    /\ DbIdle
    /\ \E n \in 0..MaxEnrichRows : \E choices \in [1..n -> EnrichRowChoices] :
           enrich_rows = [k \in 1..n |-> MkEnrichRow(choices[k], k)]
    /\ max_calls \in 0..MaxBudget
    /\ force_refresh \in BOOLEAN
    /\ \E first \in EnrichCacheChoices :
           cache = [p \in EnrichPaths |->
                       IF p = _cache_path(<<"a">>) THEN first ELSE AbsentCache]
    /\ api_calls = 0
    /\ cache_hits = 0
    /\ cache_misses = 0
    /\ enriched_count = 0
    /\ enriched_rows = <<>>
    /\ enrich_output = NoFile
    /\ enrich_exit = "none"

\* One iteration of `for row in rows`.
EnrichRow ==
    /\ pc = "enrich"
    /\ row_i <= Len(enrich_rows)
    /\ \E resp \in ApiResponses :
           LET st == EnrichBody(enrich_rows[row_i],
                                [cache |-> cache,
                                 api_calls |-> api_calls,
                                 cache_hits |-> cache_hits,
                                 cache_misses |-> cache_misses,
                                 enriched_count |-> enriched_count,
                                 enriched_rows |-> enriched_rows],
                                max_calls, force_refresh, resp)
           IN  /\ cache' = st.cache
               /\ api_calls' = st.api_calls
               /\ cache_hits' = st.cache_hits
               /\ cache_misses' = st.cache_misses
               /\ enriched_count' = st.enriched_count
               /\ enriched_rows' = st.enriched_rows
    /\ row_i' = row_i + 1
    /\ UNCHANGED <<pc, enrich_rows, max_calls, force_refresh, enrich_output,
                   enrich_exit>>
    /\ UNCHANGED <<norm_vars, rank_vars, check_vars, word_vars, first_output,
                   extract_vars, db_vars>>

\* write_csv_rows(args.output, ...); return 0
EnrichWrite ==
    /\ pc = "enrich"
    /\ row_i > Len(enrich_rows)
    /\ enrich_output' = CsvFile(enriched_rows)
    /\ enrich_exit' = 0
    /\ pc' = "enriched"
    /\ UNCHANGED <<row_i, enrich_rows, max_calls, force_refresh, cache,
                   api_calls, cache_hits, cache_misses, enriched_count,
                   enriched_rows>>
    /\ UNCHANGED <<norm_vars, rank_vars, check_vars, word_vars, first_output,
                   extract_vars, db_vars>>

EnrichNext == EnrichRow \/ EnrichWrite

SpecEnrich == EnrichInit /\ [][EnrichNext]_vars

---------------------------------------------------------------------------
(* enrich_dictionaryapi_supabase.py                                        *)

\* Largest number of rows of the table.
MaxDbRows == 2

\* The normalized_word of the row of each id.
DbWords == <<<<"a">>, <<"b">>, <<"c">>, <<"e">>>>

\* The JSON object the API sends with a 404 ("No Definitions Found").
ErrorBody == [kind |-> "dict", has_origin |-> FALSE, origin |-> <<>>]

\* What fetch_dictionaryapi can return, as (status, payload): the entries of
\* the word, a 404 with its JSON object, no answer at all.
DbResponses ==
    {[status |-> 200, payload |-> EntryPayload(TRUE, <<"x">>)],
     [status |-> 404, payload |-> ErrorBody],
     [status |-> 0, payload |-> NullPayload]}

cache_path(normalized_word) == _cache_path(normalized_word)

DbPaths == {cache_path(DbWords[k]) : k \in DOMAIN DbWords}

\* The api_enrich_status of the update built from (api_status, payload).
api_enrich_status(api_status, payload) ==
    IF api_status = 200 /\ payload.kind = "list" THEN "ok"
    ELSE IF api_status = 404 THEN "not_found"
    ELSE "error"

NoSummary == [processed |-> 0, ok |-> 0, not_found |-> 0, error |-> 0]

\* The rows of the table with their first row's word possibly blank.
DbInit ==
    /\ pc = "db_start"
    /\ row_i = 1
    /\ NormIdle
    /\ RankIdle
    /\ CheckIdle
    /\ WordIdle
    /\ first_output = NoFile
    /\ ExtractIdle
    /\ EnrichIdle
    /\ \E n \in 0..MaxDbRows : \E blank \in BOOLEAN :
           db_table = [k \in 1..n |->
                          [id |-> k,
                           normalized_word |->
                               IF blank /\ k = 1 THEN <<" ">> ELSE DbWords[k],
                           api_enrich_status |-> "pending"]]
    /\ db_rows = <<>>
    /\ dry_run = TRUE
    /\ refresh = FALSE
    /\ \E first \in {AbsentCache, CorruptCache} :
           db_cache = [p \in DbPaths |->
                          IF p = cache_path(DbWords[1]) THEN first
                          ELSE AbsentCache]
    /\ db_run = 1
    /\ db_log = <<>>
    /\ db_summary = NoSummary
    /\ db_exit = "none"

\* The arguments are parsed and the rows of the asked status are fetched, in
\* id order.
DbFetchRows ==
    /\ pc = "db_start"
    /\ \E d \in BOOLEAN, r \in BOOLEAN, wanted \in {"pending", "error"} :
           /\ dry_run' = d
           /\ refresh' = r
           /\ db_rows' = SelectSeq(db_table,
                                   LAMBDA row : row.api_enrich_status = wanted)
    /\ db_summary' = NoSummary
    /\ db_exit' = "none"
    /\ row_i' = 1
    /\ pc' = "db_loop"
    /\ UNCHANGED <<db_table, db_cache, db_run, db_log>>
    /\ UNCHANGED <<norm_vars, rank_vars, check_vars, word_vars, first_output,
                   extract_vars, enrich_vars>>

\* The GET of the rows fails: `if status >= 400: ... return 1`.
DbFetchRowsFails ==
    /\ pc = "db_start"
    /\ db_exit' = 1
    /\ pc' = "db_done"
    /\ UNCHANGED <<row_i, db_table, db_rows, dry_run, refresh, db_cache, db_run,
                   db_log, db_summary>>
    /\ UNCHANGED <<norm_vars, rank_vars, check_vars, word_vars, first_output,
                   extract_vars, enrich_vars>>

\* The body of `for row in rows` for a row with a word: the payload is read
\* from the cache file or fetched (resp) and cached, and the update is built.
DbBody(row, dir, force, resp) ==
    LET normalized_word == strip(row.normalized_word)
        path == cache_path(normalized_word)
        file == dir[path]
        loaded == file.exists /\ ~force /\ file.parses
        payload0 == IF loaded THEN file.payload ELSE NullPayload
        status0 == IF loaded THEN 200 ELSE 0
        fetch == payload0.kind = "null"
        payload == IF fetch THEN resp.payload ELSE payload0
        api_status == IF fetch THEN resp.status ELSE status0
    IN  [cache |-> IF fetch THEN [dir EXCEPT ![path] = CacheOf(resp.payload)]
                            ELSE dir,
         from_cache |-> ~fetch,
         status |-> api_enrich_status(api_status, payload)]

\* One iteration of `for row in rows`.
DbRow ==
    /\ pc = "db_loop"
    /\ row_i <= Len(db_rows)
    /\ LET row == db_rows[row_i]
       IN  IF strip(row.normalized_word) = <<>>
           THEN /\ db_summary' = [db_summary EXCEPT !.processed = @ + 1,
                                                    !.error = @ + 1]
                /\ UNCHANGED <<db_table, db_cache, db_log>>
           ELSE \E resp \in DbResponses :
                    LET out == DbBody(row, db_cache, refresh, resp)
                    IN  /\ db_cache' = out.cache
                        /\ db_summary' =
                               [db_summary EXCEPT
                                    !.processed = @ + 1,
                                    ![out.status] = @ + 1]
                        /\ db_log' = Append(db_log,
                                            [run |-> db_run,
                                             id |-> row.id,
                                             from_cache |-> out.from_cache,
                                             status |-> out.status])
                        /\ db_table' =
                               IF dry_run THEN db_table
                               ELSE [db_table EXCEPT
                                         ![row.id].api_enrich_status = out.status]
    /\ row_i' = row_i + 1
    /\ UNCHANGED <<pc, db_rows, dry_run, refresh, db_run, db_exit>>
    /\ UNCHANGED <<norm_vars, rank_vars, check_vars, word_vars, first_output,
                   extract_vars, enrich_vars>>

\* The summary is printed and the run returns 0; a second run may follow.
DbFinish ==
    /\ pc = "db_loop"
    /\ row_i > Len(db_rows)
    /\ db_exit' = 0
    /\ IF db_run = 1
       THEN db_run' = 2 /\ pc' = "db_start"
       ELSE db_run' = db_run /\ pc' = "db_done"
    /\ UNCHANGED <<row_i, db_table, db_rows, dry_run, refresh, db_cache, db_log,
                   db_summary>>
    /\ UNCHANGED <<norm_vars, rank_vars, check_vars, word_vars, first_output,
                   extract_vars, enrich_vars>>

DbNext == DbFetchRows \/ DbFetchRowsFails \/ DbRow \/ DbFinish

SpecDb == DbInit /\ [][DbNext]_vars

---------------------------------------------------------------------------
(* Properties of the normalizer and collision resolver.                    *)

\* Number of normalized entries the resolver has consumed.
Resolved ==
    IF ~do_dedupe THEN 0
    ELSE IF pc = "dedupe" THEN row_i - 1
    ELSE IF pc \in {"write", "normalized"} THEN Len(normalized_entries)
    ELSE 0

DefLen(e) == Len(strip(e.definition))

\* Positions, among the first n entries, of the entries with this key.
SameKey(n, key) == {m \in 1..n : normalized_entries[m].normalized_word = key}

\* The earliest position among those of maximal trimmed definition length.
EarliestLongest(n, key) ==
    CHOOSE m \in SameKey(n, key) :
        \A o \in SameKey(n, key) :
            \/ DefLen(normalized_entries[o]) < DefLen(normalized_entries[m])
            \/ /\ DefLen(normalized_entries[o]) = DefLen(normalized_entries[m])
               /\ m <= o

\* C1: with deduplication enabled, for every key among the entries consumed so
\* far the kept set holds exactly one entry, and it is the earliest-arriving
\* entry among those of the key whose trimmed definition is longest; the
\* entries handed to the writer are that kept set.
C1_KeptIsEarliestLongest ==
    /\ \A k \in 1..Resolved :
           LET key == normalized_entries[k].normalized_word
               held == {p \in 1..Len(kept_by_normalized) :
                            kept_by_normalized[p].normalized_word = key}
           IN  /\ Cardinality(held) = 1
               /\ \A p \in held :
                      kept_by_normalized[p] =
                          normalized_entries[EarliestLongest(Resolved, key)]
    /\ Len(kept_by_normalized) <= Resolved
    /\ (do_dedupe /\ pc \in {"write", "normalized"})
           => final_entries = kept_by_normalized
    /\ (do_dedupe /\ pc = "normalized")
           => norm_output.rows = [k \in 1..Len(kept_by_normalized) |->
                                      OutputRow(kept_by_normalized[k])]

\* C1 witness: a finished run in which one key arrived three times, the second
\* entry replaced the first (strictly longer), the third tied with the second
\* and lost, and the second is the entry written.
C1_Witness ==
    /\ pc = "normalized"
    /\ do_dedupe
    /\ Len(normalized_entries) = 3
    /\ SameKey(3, normalized_entries[1].normalized_word) = {1, 2, 3}
    /\ DefLen(normalized_entries[1]) < DefLen(normalized_entries[2])
    /\ DefLen(normalized_entries[3]) = DefLen(normalized_entries[2])
    /\ normalized_entries[3] # normalized_entries[2]
    /\ final_entries = <<normalized_entries[2]>>

\* The record the claim expects when candidate meets the kept entry existing.
ExpectedRecord(existing, candidate) ==
    LET candidate_wins == DefLen(candidate) > DefLen(existing)
        winner == IF candidate_wins THEN candidate ELSE existing
        loser == IF candidate_wins THEN existing ELSE candidate
    IN  [normalized_word |-> candidate.normalized_word,
         kept_word |-> winner.word,
         dropped_word |-> loser.word,
         kept_source_file |-> winner.source_file,
         dropped_source_file |-> loser.source_file,
         kept_entry_index |-> str(winner.entry_index),
         dropped_entry_index |-> str(loser.entry_index)]

\* What one step of the resolver loop does to the collision log.
C2_StepEffect ==
    LET entry == normalized_entries[row_i]
        pos == KeptPos(kept_by_normalized, entry.normalized_word)
    IN  (pc = "dedupe" /\ row_i <= Len(normalized_entries) /\ row_i' = row_i + 1)
        => IF pos = 0
           THEN collisions' = collisions
           ELSE collisions' =
                    Append(collisions, ExpectedRecord(kept_by_normalized[pos], entry))

\* The log only grows at its end.
C2_LogKept ==
    /\ Len(collisions') >= Len(collisions)
    /\ SubSeq(collisions', 1, Len(collisions)) = collisions

\* C2: with deduplication enabled, an incoming entry whose key already has a
\* kept entry appends exactly one collision record, naming the winner of the
\* comparison as kept and the loser as dropped, whether the candidate replaces
\* the kept entry or loses; an entry whose key is new appends none; and no step
\* of the run reorders or removes a record.
C2_OneRecordPerCollision == [][C2_StepEffect /\ C2_LogKept]_vars

\* C2 witness: a finished run whose log holds, in this order, the record of a
\* candidate that replaced the kept entry and of a candidate that lost.
C2_Witness ==
    /\ pc = "normalized"
    /\ Len(collisions) = 2
    /\ collisions[1].kept_entry_index = "2"
    /\ collisions[1].dropped_entry_index = "1"
    /\ collisions[2].kept_entry_index = "2"
    /\ collisions[2].dropped_entry_index = "3"
    /\ Len(final_entries) = 1

\* A canonical key: non-empty, characters a-z only.
IsCanonicalKey(text) ==
    /\ text # <<>>
    /\ \A k \in 1..Len(text) : Ord(text[k]) \in 97..122

\* C3: every NormalizedEntry the normalizer emits (built, kept, handed to the
\* writer or written) has a non-empty normalized_word of characters a-z only,
\* first_letter = normalized_word[0] and number_of_letters = len(normalized_word).
C3_EntryInvariants ==
    /\ \A list \in {normalized_entries, kept_by_normalized, final_entries} :
           \A k \in 1..Len(list) :
               /\ IsCanonicalKey(list[k].normalized_word)
               /\ list[k].first_letter = list[k].normalized_word[1]
               /\ list[k].number_of_letters = Len(list[k].normalized_word)
    /\ \A k \in 1..Len(norm_output.rows) :
           LET written == norm_output.rows[k]
           IN  /\ IsCanonicalKey(written.normalized_word)
               /\ written.first_letter = <<written.normalized_word[1]>>
               /\ written.number_of_letters = str(Len(written.normalized_word))

\* C3 witness: a written output holding an entry whose raw word carried a
\* capital and a blank, one whose raw word carried an accent, after a row
\* with no letter was dropped.
C3_Witness ==
    /\ pc = "normalized"
    /\ dropped_empty = 1
    /\ Len(norm_output.rows) = 2
    /\ norm_output.rows[1].normalized_word = <<"a", "b">>
    /\ norm_output.rows[1].word = <<"A", "b">>
    /\ norm_output.rows[2].normalized_word = <<"e">>
    /\ norm_output.rows[2].word = <<"e_acute">>

---------------------------------------------------------------------------
(* Properties of the rank assigner.                                        *)

\* C4: for an input of N rows the rank assigner writes exactly N rows whose
\* lex_rank values are exactly 1..N, each used once, also when the input
\* already carries a lex_rank column; the ranks given so far are 1..k.
C4_RanksAreOneToN ==
    /\ {ranked_rows[k].lex_rank : k \in 1..Len(ranked_rows)} = 1..Len(ranked_rows)
    /\ pc = "ranked"
           => LET out == rank_output.rows
                  N == Len(rank_rows)
              IN  /\ rank_output.exists
                  /\ Len(out) = N
                  /\ {out[k].lex_rank : k \in 1..N} = {str(n) : n \in 1..N}
                  /\ \A j, k \in 1..N : j # k => out[j].lex_rank # out[k].lex_rank

\* C4 witness: a written output of three rows for an input whose rows all
\* carried the stale lex_rank "1".
C4_Witness ==
    /\ pc = "ranked"
    /\ Len(rank_rows) = 3
    /\ \A k \in 1..3 : rank_rows[k].lex_rank = "1"
    /\ Len(rank_output.rows) = 3

\* C5: in the rank assigner's output, lex_rank_a < lex_rank_b implies
\* normalized_word_a <= normalized_word_b by code point, with or without
\* duplicate canonical keys in the input.
C5_RankOrderIsKeyOrder ==
    pc = "ranked"
        => \A a, b \in 1..Len(rank_output.rows) :
               int(rank_output.rows[a].lex_rank) < int(rank_output.rows[b].lex_rank)
                   => ~TextLess(rank_output.rows[b].normalized_word,
                                rank_output.rows[a].normalized_word)

\* C5 witness: an input given in descending key order, with a duplicate key
\* whose display words differ, written in ascending key order.
C5_Witness ==
    /\ pc = "ranked"
    /\ Len(rank_rows) = 3
    /\ rank_rows[1].normalized_word = <<"b">>
    /\ rank_rows[2].normalized_word = <<"a", "b">>
    /\ rank_rows[3].normalized_word = <<"a", "b">>
    /\ rank_rows[2].word # rank_rows[3].word
    /\ rank_output.rows[1].normalized_word = <<"a", "b">>
    /\ rank_output.rows[3].normalized_word = <<"b">>
    /\ rank_output.rows[3].lex_rank = "3"

\* Row k of the input after the rows have been rearranged by p.
Permuted(rows, p) == [k \in 1..Len(rows) |-> rows[p[k]]]

\* The (source_file, entry_index) of a row, the index as the stages read it.
OriginOf(row) == <<row.source_file, int(OrZero(row.entry_index))>>

\* No two input rows have the same (source_file, entry_index).
DistinctOrigins ==
    /\ \A k \in 1..Len(rank_rows) : CanParseInt(OrZero(rank_rows[k].entry_index))
    /\ \A j, k \in 1..Len(rank_rows) :
           j # k => OriginOf(rank_rows[j]) # OriginOf(rank_rows[k])

\* C19: when the input rows have pairwise distinct (source_file,
\* entry_index), no two rows have equal sort keys, and the rank given to each
\* entry is the same for every permutation of the input rows.
C19_RankIndependentOfInputOrder ==
    (pc \in {"rank_assign", "ranked"} /\ DistinctOrigins)
        => /\ \A j, k \in 1..Len(rank_rows) :
                  j # k => sort_key(rank_rows[j]) # sort_key(rank_rows[k])
           /\ \A p \in Permutations(1..Len(rank_rows)) :
                  sorted(Permuted(rank_rows, p)) = rows_sorted

\* C19 witness: three rows of the same key and the same word, told apart by
\* their entry_index alone, given in the reverse of their rank order, sorted.
C19_Witness ==
    /\ pc = "ranked"
    /\ DistinctOrigins
    /\ Len(rank_rows) = 3
    /\ \A k \in 1..3 : rank_rows[k].word = <<"b">>
    /\ rank_rows[1].entry_index = "1"
    /\ rank_rows[2].entry_index = ""
    /\ rank_output.rows[1].entry_index = ""
    /\ rank_output.rows[3].entry_index = "3"

\* C20: run again on its own output, with or without the lex_rank column,
\* the rank assigner gives every entry the same lex_rank and the rows the same
\* order, and changes no other field.
C20_RerunIsIdentity ==
    (pc = "ranked" /\ first_output.exists) => rank_output = first_output

\* C20 witness: the second run is over, on three rows of which the first two
\* had equal sort keys and different definitions.
C20_Witness ==
    /\ pc = "ranked"
    /\ first_output.exists
    /\ Len(rank_output.rows) = 3
    /\ sort_key(rank_output.rows[1]) = sort_key(rank_output.rows[2])
    /\ rank_output.rows[1].definition # rank_output.rows[2].definition
    /\ rank_rows[1].lex_rank = None
    /\ rank_output.rows[3].lex_rank = "3"

---------------------------------------------------------------------------
(* Properties of the verifier.                                             *)

\* The lex_rank and number_of_letters of row k as integers (blank: 0).
RankOf(k) == int(OrZero(check_rows[k].lex_rank))

LettersOf(k) == int(OrZero(check_rows[k].number_of_letters))

\* The verifier has gone through a file that has rows.
CheckedRows == pc = "checked" /\ check_rows # <<>>

Reported(k, kind) == \E e \in 1..Len(errors) : errors[e] = Violation(k, kind)

\* The stored words are canonical keys and the lex_rank values are exactly
\* 1..N, none repeated.
SoundRowsRanksOneToN ==
    /\ \A k \in 1..Len(check_rows) : IsCanonicalKey(check_rows[k].normalized_word)
    /\ {RankOf(k) : k \in 1..Len(check_rows)} = 1..Len(check_rows)
    /\ \A j, k \in 1..Len(check_rows) : j # k => RankOf(j) # RankOf(k)

\* C6: whenever some pair of rows has lex_rank_a < lex_rank_b but
\* normalized_word_a > normalized_word_b, whatever the order of the rows in
\* the file, the verifier reports an ordering violation and exits 1.  Stated
\* for the datasets the claim singles out, whose lex_rank values are exactly
\* 1..N without duplicates (and whose words are canonical keys), where
\* nothing but the ordering check can make the verifier fail.
C6_OrderingFollowsRank ==
    (CheckedRows /\ SoundRowsRanksOneToN)
        => ((\E a, b \in 1..Len(check_rows) :
                 /\ RankOf(a) < RankOf(b)
                 /\ TextLess(check_rows[b].normalized_word,
                             check_rows[a].normalized_word))
            => /\ \E e \in 1..Len(errors) : errors[e].kind = "ordering"
               /\ check_exit = 1)

\* C7: every row whose stored normalized_word does not match ^[a-z]+$ gets at
\* least one violation and the verifier exits non-zero.
C7_NonCanonicalRowReported ==
    CheckedRows
        => \A k \in 1..Len(check_rows) :
               ~IsCanonicalKey(check_rows[k].normalized_word)
                   => /\ \E e \in 1..Len(errors) : errors[e].row = k
                      /\ check_exit # 0

\* C8: the verifier exits 0 only if the lex_rank values of the N rows are
\* exactly 1..N with no value repeated (so a gap, a rank out of range, a
\* blank rank or a repeated rank makes it fail).
C8_ExitZeroOnlyIfRanksOneToN ==
    (pc = "checked" /\ check_exit = 0)
        => /\ check_rows # <<>>
           /\ {RankOf(k) : k \in 1..Len(check_rows)} = 1..Len(check_rows)
           /\ \A j, k \in 1..Len(check_rows) : j # k => RankOf(j) # RankOf(k)

\* C8 witness: the verifier has accepted a file of three rows.
C8_Witness ==
    /\ pc = "checked"
    /\ check_exit = 0
    /\ Len(check_rows) = 3

\* The pairs of rows that share a lex_rank.
SharedRankPairs ==
    {p \in (1..Len(check_rows)) \X (1..Len(check_rows)) :
         p[1] < p[2] /\ RankOf(p[1]) = RankOf(p[2])}

\* C9: when exactly two rows share a lex_rank and all other ranks are pairwise
\* distinct, the verifier reports exactly one duplicate-rank violation, for
\* the later of the two rows, and exits 1.
C9_OneDuplicateReported ==
    (CheckedRows /\ Cardinality(SharedRankPairs) = 1)
        => LET pair == CHOOSE p \in SharedRankPairs : TRUE
               dups == {e \in 1..Len(errors) : errors[e].kind = "duplicate"}
           IN  /\ Cardinality(dups) = 1
               /\ \A e \in dups : errors[e].row = pair[2]
               /\ check_exit = 1

\* C9 witness: a checked file of three rows whose first and third row share
\* lex_rank 1, the second having another rank.
C9_Witness ==
    /\ CheckedRows
    /\ Len(check_rows) = 3
    /\ SharedRankPairs = {<<1, 3>>}
    /\ RankOf(1) = 1
    /\ Reported(3, "duplicate")
    /\ check_exit = 1

\* The first character of a text, as a text.
FirstChar(text) == IF text = <<>> THEN <<>> ELSE <<text[1]>>

\* Row k stores its word and first letter without surrounding whitespace.
Unpadded(k) ==
    /\ strip(check_rows[k].normalized_word) = check_rows[k].normalized_word
    /\ strip(check_rows[k].first_letter) = check_rows[k].first_letter

\* C10: for every row, a first-letter violation is reported when first_letter
\* differs from the first character of normalized_word, and a length violation
\* when number_of_letters differs from len(normalized_word), whatever else is
\* wrong with the row (an empty normalized_word included).  Stated for the
\* rows stored without surrounding whitespace, so that the verifier's
\* trimming of the fields plays no part.
C10_FieldChecksIndependent ==
    CheckedRows
        => \A k \in 1..Len(check_rows) :
               Unpadded(k)
                   => /\ check_rows[k].first_letter
                             # FirstChar(check_rows[k].normalized_word)
                          => Reported(k, "first_letter")
                      /\ LettersOf(k) # Len(check_rows[k].normalized_word)
                          => Reported(k, "length")

\* C11: the verifier's exit code is 0 exactly when the dataset has rows and no
\* violation was recorded, 1 when at least one violation was recorded, and 2
\* when the dataset has no rows.
C11_ExitCodeContract ==
    pc = "checked"
        => /\ check_exit \in {0, 1, 2}
           /\ check_exit = 0 <=> (check_rows # <<>> /\ errors = <<>>)
           /\ check_exit = 1 <=> errors # <<>>
           /\ check_exit = 2 <=> check_rows = <<>>

\* C11 witness: a file of two rows has been checked, a violation recorded for
\* its second row, and the verifier has exited 1.
C11_Witness ==
    /\ pc = "checked"
    /\ Len(check_rows) = 2
    /\ \E e \in 1..Len(errors) : errors[e].row = 2
    /\ check_exit = 1

\* C12: for every non-empty ranked dataset, rows whose lex_rank or
\* number_of_letters is missing, blank or no integer included, the verifier
\* never aborts with an exception: it examines every row and terminates with
\* exit code 0 or 1.
C12_NoAbortOnMalformedField ==
    /\ pc # "raised"
    /\ CheckedRows => (row_i = Len(check_rows) + 1 /\ check_exit \in {0, 1})

---------------------------------------------------------------------------
(* Properties of the stages on malformed and droppable rows.               *)

\* The number of raw rows the row loop has gone through, and those of them
\* whose word has a letter, in order.
RowsDone == IF pc \in {"normalize", "raised"} THEN row_i - 1 ELSE Len(raw_rows)

EnteredRows ==
    SelectSeq(SubSeq(raw_rows, 1, RowsDone),
              LAMBDA r : normalize_word(r.word) # <<>>)

\* C13: a row whose entry_index is missing, blank or no integer is processed
\* with entry_index 0; the stage never fails on it, completes and emits its
\* output.
C13_LenientEntryIndex ==
    /\ pc # "raised"
    /\ pc = "normalized" => (norm_output.exists /\ norm_exit = 0)
    /\ pc = "ranked" => (rank_output.exists /\ rank_exit = 0)
    /\ \A k \in 1..Len(EnteredRows) :
           ~CanParseInt(EnteredRows[k].entry_index)
               => normalized_entries[k].entry_index = 0

\* The rows gone through whose word normalizes to the empty string.
EmptyKeyRows ==
    {k \in 1..RowsDone : normalize_word(raw_rows[k].word) = <<>>}

\* C14: a raw row whose word normalizes to the empty string produces no
\* entry and adds one to the dropped-empty counter; it raises no exception
\* (the loop fails only on an entry_index that is no integer) and the later
\* rows are still processed; at the end of the pass, input rows = normalized
\* entries + dropped rows.
C14_EmptyKeyRowsDropped ==
    /\ dropped_empty = Cardinality(EmptyKeyRows)
    /\ LET entered == EnteredRows
       IN  /\ Len(normalized_entries) = Len(entered)
           /\ \A k \in 1..Len(entered) :
                  normalized_entries[k].word = clean_whitespace(entered[k].word)
    /\ pc = "raised" => ~CanParseInt(OrZero(raw_rows[row_i].entry_index))
    /\ pc \in {"dedupe", "write", "normalized"}
           => Len(raw_rows) = Len(normalized_entries) + dropped_empty
                                  + dropped_nonalpha

\* C14 witness: a finished pass over three rows whose second word has no
\* letter: one row dropped, the rows before and after it entered.
C14_Witness ==
    /\ pc = "normalized"
    /\ Len(raw_rows) = 3
    /\ EmptyKeyRows = {2}
    /\ dropped_empty = 1
    /\ Len(normalized_entries) = 2
    /\ normalized_entries[2].entry_index = 3

\* C18: with deduplication disabled, the output is exactly the sequence of
\* all entries in arrival order, each unchanged, entries with equal keys all
\* retained, and no collision record is recorded or written.
C18_NoDedupePassThrough ==
    ~do_dedupe
        => /\ collisions = <<>>
           /\ kept_by_normalized = <<>>
           /\ collisions_file = NoFile
           /\ pc \in {"write", "normalized"} => final_entries = normalized_entries
           /\ pc = "normalized"
                  => LET entered == EnteredRows
                     IN  /\ Len(norm_output.rows) = Len(entered)
                         /\ \A k \in 1..Len(entered) :
                                /\ norm_output.rows[k] = OutputRow(normalized_entries[k])
                                /\ norm_output.rows[k].entry_index
                                       = OrZero(entered[k].entry_index)
                                /\ norm_output.rows[k].normalized_word
                                       = normalize_word(entered[k].word)
                                /\ norm_output.rows[k].definition
                                       = clean_whitespace(entered[k].definition)

\* C18 witness: without deduplication, three rows of the same key have been
\* written, in the order of the input.
C18_Witness ==
    /\ ~do_dedupe
    /\ pc = "normalized"
    /\ Len(norm_output.rows) = 3
    /\ \A k \in 1..3 : /\ norm_output.rows[k].normalized_word = <<"a", "b">>
                        /\ norm_output.rows[k].entry_index = str(k)
    /\ norm_output.rows[1].definition # norm_output.rows[2].definition

---------------------------------------------------------------------------
(* Properties of normalize_word.                                           *)

\* What one character gives the key: a letter its lowercase ASCII base
\* letter, any other character nothing.
BaseLetter(ch) ==
    CASE ch \in {"a", "b", "c", "e", "f", "x", "y", "z"} -> <<ch>>
      [] ch = "A" -> <<"a">>
      [] ch = "B" -> <<"b">>
      [] ch = "C" -> <<"c">>
      [] ch = "E" -> <<"e">>
      [] ch \in {"e_acute", "E_ACUTE"} -> <<"e">>
      [] OTHER -> <<>>

RECURSIVE BaseLetters(_)
BaseLetters(text) ==
    IF text = <<>> THEN <<>> ELSE BaseLetter(Head(text)) \o BaseLetters(Tail(text))

\* normalize_word has been applied to word_raw.
WordApplied == pc # "normalize_word" /\ raw_rows # <<>> /\ raw_rows[1].word = word_raw

\* C15 as stated: normalize_word returns, in original order, the lowercase
\* ASCII base letters of the letter characters and nothing else, and the word
\* made of C, a, f, an accented e, a hyphen, digits and "!" yields "caf".
C15_BaseLettersCaf ==
    WordApplied
        => /\ word_key = BaseLetters(word_raw)
           /\ word_raw = CafeWord => word_key = <<"c", "a", "f">>

\* C15 amended: normalize_word returns, in original order, the lowercase
\* ASCII base letters of the letter characters and nothing else; an accented
\* letter gives its base letter, so the word made of C, a, f, an accented e, a
\* hyphen, digits and "!" yields "cafe".
C15_BaseLettersCafe ==
    WordApplied
        => /\ word_key = BaseLetters(word_raw)
           /\ word_raw = CafeWord => word_key = <<"c", "a", "f", "e">>

\* C15 witness: normalize_word has been applied to the word of the example.
C15_Witness ==
    /\ WordApplied
    /\ word_raw = CafeWord
    /\ word_key = <<"c", "a", "f", "e">>

\* C16: normalize_word is idempotent, normalize_word(normalize_word(s)) =
\* normalize_word(s), and does not depend on the whitespace cleaning of its
\* argument, normalize_word(clean_whitespace(s)) = normalize_word(s); so the
\* normalized_word of every entry emitted is normalize_word of its stored word.
C16_KeyRecomputable ==
    WordApplied
        => /\ word_rekey = word_key
           /\ word_clean_key = word_key
           /\ \A k \in 1..Len(normalized_entries) :
                  normalized_entries[k].normalized_word
                      = normalize_word(normalized_entries[k].word)
           /\ \A k \in 1..Len(norm_output.rows) :
                  /\ norm_output.rows[k].normalized_word
                         = normalize_word(norm_output.rows[k].word)
                  /\ norm_output.rows[k].normalized_word = word_key

\* C16 witness: the entry of a word with a capital, an accent and a tab has
\* been written; its stored word differs from the raw word and from the key.
C16_Witness ==
    /\ WordApplied
    /\ word_raw = <<"\t", "A", "e_acute">>
    /\ pc = "normalized"
    /\ Len(norm_output.rows) = 1
    /\ norm_output.rows[1].word = <<"A", "e_acute">>
    /\ norm_output.rows[1].normalized_word = <<"a", "e">>

---------------------------------------------------------------------------
(* Properties of the stages run one after the other.                       *)

\* C21: for every raw input that yields at least one NormalizedEntry, the
\* normalizer (dedupe enabled or disabled), then the rank assigner, then the
\* verifier on the result give no violation and exit code 0; the duplicate
\* keys of dedupe=false are not reported.
C21_PipelineOutputVerifies ==
    (pc = "checked" /\ normalized_entries # <<>>)
        => /\ check_rows = rank_output.rows
           /\ Len(check_rows) = Len(final_entries)
           /\ errors = <<>>
           /\ check_exit = 0

\* C21 witness: without deduplication, three rows of the key "ab" have gone
\* through the three stages and the verifier has exited 0.
C21_Witness ==
    /\ pc = "checked"
    /\ ~do_dedupe
    /\ Len(check_rows) = 3
    /\ \A k \in 1..3 : check_rows[k].normalized_word = <<"a", "b">>
    /\ check_exit = 0

\* C22: each core stage treats an input of zero rows as fatal: it exits with
\* a code that is neither 0 nor the code 1 of invariant violations.
C22_EmptyInputIsFatal ==
    /\ (pc = "normalized" /\ raw_rows = <<>>) => norm_exit \notin {0, 1}
    /\ (pc = "ranked" /\ rank_rows = <<>>) => rank_exit \notin {0, 1}
    /\ (pc = "checked" /\ check_rows = <<>>) => check_exit \notin {0, 1}

\* The last non-empty word among the first k rows (<<>>: none).
RECURSIVE LastWordUpTo(_)
LastWordUpTo(k) ==
    IF k = 0 THEN <<>>
    ELSE IF strip(check_rows[k].normalized_word) # <<>>
    THEN strip(check_rows[k].normalized_word)
    ELSE LastWordUpTo(k - 1)

\* The violations row k of the file adds, whatever the rows before it added.
RowDefects(k) ==
    LET row == check_rows[k]
    IN  RowViolations(k, strip(row.normalized_word), strip(row.first_letter),
                      LettersOf(k), RankOf(k),
                      {RankOf(j) : j \in 1..(k - 1)}, LastWordUpTo(k - 1))

RECURSIVE DefectsUpTo(_)
DefectsUpTo(k) == IF k = 0 THEN <<>> ELSE DefectsUpTo(k - 1) \o RowDefects(k)

\* C23: the verifier does not short-circuit: the violations of every row are
\* collected, whatever was found on the rows before it; with V violations
\* collected it reports the first min(V, 50) in discovery order and, when
\* V > 50, the count V - 50 of those it does not report.
C23_AllCollectedFirstFiftyShown ==
    CheckedRows
        => LET V == Len(errors)
               rows_part == DefectsUpTo(Len(check_rows))
           IN  /\ SubSeq(errors, 1, Len(rows_part)) = rows_part
               /\ V <= Len(rows_part) + 1
               /\ Len(check_report.shown) = (IF V < ReportLimit THEN V ELSE ReportLimit)
               /\ \A e \in 1..Len(check_report.shown) : check_report.shown[e] = errors[e]
               /\ check_report.more = (IF V > ReportLimit THEN V - ReportLimit ELSE 0)

\* C23 witness: thirteen faulty rows have given 52 violations, the last of
\* them for the file as a whole; 50 are shown and 2 are counted as more.
C23_Witness ==
    /\ CheckedRows
    /\ Len(check_rows) = 13
    /\ Len(errors) = 52
    /\ Reported(13, "length")
    /\ Len(check_report.shown) = 50
    /\ check_report.more = 2

\* C24: the normalizer's non-alpha drop branch is never taken: for every raw
\* word the key holds only a..z, the dropped_nonalpha counter stays 0, and a
\* row is dropped exactly when its key is empty.
C24_NonAlphaBranchUnreachable ==
    /\ dropped_nonalpha = 0
    /\ RowOutcome(normalize_word(word_raw)) # "dropped_nonalpha"
    /\ (WordApplied /\ pc # "normalize")
           => /\ dropped_empty = (IF word_key = <<>> THEN 1 ELSE 0)
              /\ Len(normalized_entries) = 1 - dropped_empty

\* C24 witness: a word of a digit, a hyphen and a non-Latin letter has been
\* dropped, and counted as empty after normalization.
C24_Witness ==
    /\ WordApplied
    /\ pc = "normalized"
    /\ word_raw = <<"1", "-", "cyr_ya">>
    /\ dropped_empty = 1
    /\ dropped_nonalpha = 0
    /\ norm_output.rows = <<>>

---------------------------------------------------------------------------
(* Properties of the extractor.                                            *)

\* (source_file, entry_index) of row a comes strictly before that of row b.
OriginBefore(a, b) ==
    \/ TextLess(a.source_file, b.source_file)
    \/ a.source_file = b.source_file /\ int(a.entry_index) < int(b.entry_index)

\* The entry_index values of the rows of one file, in the order of the rows.
IndexesOf(rows, path) ==
    LET own == SelectSeq(rows, LAMBDA r : r.source_file = path)
    IN  [k \in 1..Len(own) |-> int(own[k].entry_index)]

\* C25: the extractor emits the raw rows in strictly ascending (source_file,
\* entry_index) order: the files in sorted path order and, within a file, the
\* indexes 1, 2, ..., k in emission order, without a gap, the paragraphs
\* skipped taking none; so (source_file, entry_index) is unique.
C25_RowsInOriginOrder ==
    (pc = "extracted" /\ extract_exit = 0)
        => LET rows == raw_output.rows
           IN  /\ \A j, k \in 1..Len(rows) : j < k => OriginBefore(rows[j], rows[k])
               /\ \A path \in DOMAIN html :
                      LET k == Cardinality({i \in 1..Len(html[path]) :
                                               html[path][i] = "entry"})
                      IN  IndexesOf(rows, path) = [i \in 1..k |-> i]
               /\ \A j, k \in 1..Len(rows) :
                      j # k => <<rows[j].source_file, rows[j].entry_index>>
                                   # <<rows[k].source_file, rows[k].entry_index>>

\* C25 witness: the glob gave "b" before "ab"; each file has a skipped
\* paragraph before or between its entries; the rows of "ab" come first.
C25_Witness ==
    /\ pc = "extracted"
    /\ globbed = << <<"b">>, <<"a", "b">> >>
    /\ html[<<"b">>] = <<"no_b", "entry">>
    /\ html[<<"a", "b">>] = <<"entry", "blank_b">>
    /\ Len(raw_output.rows) = 2
    /\ raw_output.rows[1].source_file = <<"a", "b">>
    /\ raw_output.rows[2].entry_index = "1"

---------------------------------------------------------------------------
(* Properties of the offline enrichment.                                   *)

\* The row asks for an etymology: it has a key and its etymology is blank.
NeedsEnrichment(row) ==
    strip(row.normalized_word) # <<>> /\ strip(row.etymology) = <<>>

\* The row has no payload to read from the cache directory dir.
NeedsFetch(row, dir) ==
    LET file == dir[_cache_path(strip(row.normalized_word))]
    IN  /\ NeedsEnrichment(row)
        /\ \/ force_refresh
           \/ ~file.exists
           \/ ~file.parses
           \/ file.payload.kind = "null"

\* The rows handed to the writer so far are the input rows in input order,
\* equal to them outside etymology, and equal in etymology too where the
\* input etymology is not blank.
EnrichedRowsFrame ==
    /\ Len(enriched_rows) = row_i - 1
    /\ \A k \in 1..Len(enriched_rows) :
           LET before == enrich_rows[k]
               after == enriched_rows[k]
           IN  /\ DOMAIN after = DOMAIN before
               /\ after.entry_index = before.entry_index
               /\ after.normalized_word = before.normalized_word
               /\ strip(before.etymology) # <<>> =>
                      after.etymology = before.etymology

\* A row that needs a fetch when the budget is used up is appended as it is,
\* and no call is made for it.
ExhaustedPassThrough ==
    (/\ pc = "enrich"
     /\ row_i <= Len(enrich_rows)
     /\ max_calls > 0
     /\ api_calls >= max_calls
     /\ NeedsFetch(enrich_rows[row_i], cache))
    => /\ enriched_rows' = Append(enriched_rows, enrich_rows[row_i])
       /\ api_calls' = api_calls
       /\ cache' = cache

RowsNeedingEnrichment ==
    {k \in 1..(row_i - 1) : NeedsEnrichment(enrich_rows[k])}

\* The row being read asks for an etymology and its word has a cache file
\* that reads as JSON.
CachedWordStep ==
    /\ pc = "enrich"
    /\ row_i <= Len(enrich_rows)
    /\ NeedsEnrichment(enrich_rows[row_i])
    /\ LET file == cache[_cache_path(strip(enrich_rows[row_i].normalized_word))]
       IN  file.exists /\ file.parses

\* C27: with force_refresh false, a word that has a cache file (one written
\* after a failed fetch included) causes no API call, and every row read is
\* counted as a cache hit or as a cache miss, never both: cache_hits +
\* cache_misses never exceeds the number of rows needing enrichment.
C27_CachedWordNotFetched ==
    /\ [][(~force_refresh /\ CachedWordStep) => api_calls' = api_calls]_vars
    /\ [](pc \in {"enrich", "enriched"} /\ ~force_refresh =>
            cache_hits + cache_misses <= Cardinality(RowsNeedingEnrichment))

---------------------------------------------------------------------------
(* Properties of the collision resolver's bookkeeping.                     *)

\* The entries the resolver has taken so far.
ResolvedEntries ==
    SubSeq(normalized_entries, 1,
           IF pc = "dedupe" THEN row_i - 1 ELSE Len(normalized_entries))

\* (source_file, entry_index) of an entry, as a collision record writes it.
EntryOrigin(e) == <<e.source_file, str(e.entry_index)>>

KeptOrigin(c) == <<c.kept_source_file, c.kept_entry_index>>

DroppedOrigin(c) == <<c.dropped_source_file, c.dropped_entry_index>>

\* No two normalized entries have the same (source_file, entry_index).
DistinctEntryOrigins ==
    \A j, k \in 1..Len(normalized_entries) :
        j # k => EntryOrigin(normalized_entries[j])
                     # EntryOrigin(normalized_entries[k])

\* C28: with deduplication on and pairwise distinct (source_file,
\* entry_index), every normalized entry taken by the resolver is either the
\* kept entry of its key or the dropped entry of exactly one collision
\* record, never both; the number of collision records is the number of
\* entries minus the number of distinct keys; and the kept entry of the last
\* collision record of a key is the entry kept for that key.
C28_EveryEntryAccountedOnce ==
    (/\ pc \in {"dedupe", "write", "normalized"}
     /\ do_dedupe
     /\ DistinctEntryOrigins)
    => LET resolved == ResolvedEntries
           keys == {resolved[k].normalized_word : k \in 1..Len(resolved)}
       IN  /\ \A k \in 1..Len(resolved) :
                  LET e == resolved[k]
                      is_kept == \E j \in 1..Len(kept_by_normalized) :
                                     kept_by_normalized[j] = e
                      drops == {j \in 1..Len(collisions) :
                                    DroppedOrigin(collisions[j]) = EntryOrigin(e)}
                  IN  \/ is_kept /\ drops = {}
                      \/ ~is_kept /\ Cardinality(drops) = 1
           /\ Len(collisions) = Len(resolved) - Cardinality(keys)
           /\ \A j \in 1..Len(collisions) :
                  (\A l \in (j + 1)..Len(collisions) :
                       collisions[l].normalized_word
                           # collisions[j].normalized_word)
                  => \E p \in 1..Len(kept_by_normalized) :
                         /\ kept_by_normalized[p].normalized_word
                                = collisions[j].normalized_word
                         /\ EntryOrigin(kept_by_normalized[p])
                                = KeptOrigin(collisions[j])
           /\ pc \in {"write", "normalized"} =>
                  final_entries = kept_by_normalized

\* A finished run in which three entries met under one key: the entry kept
\* by the first collision record is the one dropped by the second.
C28_Witness ==
    /\ pc = "normalized"
    /\ do_dedupe
    /\ DistinctEntryOrigins
    /\ Len(collisions) = 2
    /\ collisions[1].normalized_word = collisions[2].normalized_word
    /\ KeptOrigin(collisions[1]) = DroppedOrigin(collisions[2])
    /\ Len(final_entries) = 1
    /\ EntryOrigin(final_entries[1]) = KeptOrigin(collisions[2])

---------------------------------------------------------------------------
(* Properties of the database enrichment.                                  *)

\* C29: the api_enrich_status computed for a word does not depend on where
\* the payload came from: a second run that reads the payload a first run
\* fetched and cached assigns the status the first run assigned.
C29_StatusSameFromCache ==
    \A j, k \in 1..Len(db_log) :
        (/\ db_log[j].run = 1
         /\ ~db_log[j].from_cache
         /\ db_log[k].run = 2
         /\ db_log[k].from_cache
         /\ db_log[j].id = db_log[k].id)
        => db_log[k].status = db_log[j].status

---------------------------------------------------------------------------
(* Properties of the normalizer's artifacts across runs.                   *)

\* C30: after a run with deduplication on, the collision report holds
\* exactly the collision records of that run, none when the run found no
\* collision, whatever an earlier run wrote at that path.
C30_ReportHoldsThisRunsCollisions ==
    (pc = "normalized" /\ do_dedupe)
    => IF collisions = <<>>
       THEN collisions_file.rows = <<>>
       ELSE collisions_file = CsvFile(collisions)

=============================================================================
